---- MODULE Spec2Model ----
(***************************************************************************)
(* Model of the bitcoin-map backend: the canonical store (DatabaseService, *)
(* table "locations"), the entity normalizer embedded in upsertLocation,   *)
(* and the sync orchestrator updateBitcoinLocations with its triggers.     *)
(*                                                                         *)
(* Conventions.                                                            *)
(*   - A JS value that may be null/undefined is an option: <<>> is null,   *)
(*     <<v>> is the value v.                                               *)
(*   - A JS object used as a tag map is the sequence of its <<key, value>> *)
(*     pairs in insertion order (keys unique).                             *)
(*   - JSON text of a tag map is the flat token sequence                   *)
(*     <<k1, v1, k2, v2, ...>>; JSON text of a number list is the list.    *)
(*   - Coordinates are integers in tenths of a degree.                     *)
(***************************************************************************)
EXTENDS Integers, Sequences, FiniteSets, TLC

VARIABLES store, now, last, lastOk, passes, timers, started, input, response, api,
          page

vars ==
  <<store, now, last, lastOk, passes, timers, started, input, response, api, page>>

(***************************************************************************)
(* Bounds of the model.                                                    *)
(***************************************************************************)
MaxTime == 1
MaxPasses == 2
MaxPending == 2
MaxIdLen == 2

\* the last instant of the browser's clock
MaxClock == 5

\* the one-second timers of loadData that can be pending at once
MaxStatsTimers == 2

(***************************************************************************)
(* Options and JS objects.                                                 *)
(***************************************************************************)
None == <<>>

Some(v) == <<v>>

IsSome(o) == o # <<>>

Get(o) == o[1]

\* key in obj
ObjHas(obj, k) == \E i \in 1..Len(obj) : obj[i][1] = k

\* obj[k]: the value as an option (None when the key is absent)
ObjGet(obj, k) ==
  IF ObjHas(obj, k)
    THEN Some(obj[CHOOSE i \in 1..Len(obj) : obj[i][1] = k][2])
    ELSE None

\* obj[k] = v: an existing key keeps its position, a new key is appended
ObjSet(obj, k, v) ==
  IF ObjHas(obj, k)
    THEN [i \in 1..Len(obj) |-> IF obj[i][1] = k THEN <<k, v>> ELSE obj[i]]
    ELSE Append(obj, <<k, v>>)

\* { ...target, ...src }: the own properties of src assigned in order
RECURSIVE ObjSpread(_, _)
ObjSpread(target, src) ==
  IF src = <<>>
    THEN target
    ELSE ObjSpread(ObjSet(target, Head(src)[1], Head(src)[2]), Tail(src))

ObjKeys(obj) == {obj[i][1] : i \in 1..Len(obj)}

\* JSON.stringify of a tag map: the flat token sequence k1, v1, k2, v2, ...
RECURSIVE JSONstringify(_)
JSONstringify(obj) ==
  IF obj = <<>>
    THEN <<>>
    ELSE <<Head(obj)[1], Head(obj)[2]>> \o JSONstringify(Tail(obj))

\* JSON.parse of the text of a tag map: a repeated key keeps the last value
RECURSIVE JSONparseFrom(_, _)
JSONparseFrom(text, acc) ==
  IF Len(text) < 2
    THEN acc
    ELSE JSONparseFrom(SubSeq(text, 3, Len(text)), ObjSet(acc, text[1], text[2]))

JSONparse(text) == JSONparseFrom(text, <<>>)

\* JSON.stringify of an optional number list: undefined stays undefined (bound as NULL)
JSONstringifyList(optList) == optList

(***************************************************************************)
(* The canonical store: table "locations".                                 *)
(***************************************************************************)
\* the schema with lat and lon declared nullable
NotNullExceptCoords(p) ==
  \/ p.type = None
  \/ p.tags = None
  \/ p.source = None

\* the schema with lat, lon and tags declared nullable
NotNullTypeAndSourceOnly(p) ==
  \/ p.type = None
  \/ p.source = None

\* the columns declared NOT NULL (id is the INTEGER PRIMARY KEY)
NotNullViolated(p) ==
  \/ p.type = None
  \/ p.lat = None
  \/ p.lon = None
  \/ p.tags = None
  \/ p.source = None

\* the statement with "nodes = ?" missing from the DO UPDATE SET list
DbRunUpsertKeepsNodes(st, p, t, dbErr) ==
  IF dbErr \/ NotNullViolated(p)
    THEN [ok |-> FALSE, store |-> st]
    ELSE IF \E r \in st : r.id = p.id
      THEN [ok |-> TRUE,
            store |-> {IF r.id = p.id
                         THEN [r EXCEPT !.type = p.type, !.lat = p.lat, !.lon = p.lon,
                                        !.tags = p.tags, !.source = p.source,
                                        !.updated_at = t]
                         ELSE r : r \in st}]
      ELSE [ok |-> TRUE,
            store |-> st \cup {[id |-> p.id, type |-> p.type, lat |-> p.lat,
                                lon |-> p.lon, tags |-> p.tags, nodes |-> p.nodes,
                                source |-> p.source, updated_at |-> t]}]

\* the statement without its ON CONFLICT clause: a second INSERT for an id
\* violates the primary key
DbRunInsertOnly(st, p, t, dbErr) ==
  IF dbErr \/ NotNullViolated(p) \/ \E r \in st : r.id = p.id
    THEN [ok |-> FALSE, store |-> st]
    ELSE [ok |-> TRUE,
          store |-> st \cup {[id |-> p.id, type |-> p.type, lat |-> p.lat,
                              lon |-> p.lon, tags |-> p.tags, nodes |-> p.nodes,
                              source |-> p.source, updated_at |-> t]}]

\* DELETE of the id followed by a plain INSERT, not in one transaction: a
\* failing INSERT leaves the id without its row
DbRunDeleteThenInsert(st, p, t, dbErr) ==
  IF dbErr \/ NotNullViolated(p)
    THEN [ok |-> FALSE, store |-> {r \in st : r.id # p.id}]
    ELSE [ok |-> TRUE,
          store |-> {r \in st : r.id # p.id}
                      \cup {[id |-> p.id, type |-> p.type, lat |-> p.lat,
                             lon |-> p.lon, tags |-> p.tags, nodes |-> p.nodes,
                             source |-> p.source, updated_at |-> t]}]

\* ON CONFLICT(id) DO NOTHING: a statement for an id that has a row resolves
\* and keeps the row
DbRunInsertOrIgnore(st, p, t, dbErr) ==
  IF dbErr \/ NotNullViolated(p)
    THEN [ok |-> FALSE, store |-> st]
    ELSE IF \E r \in st : r.id = p.id
      THEN [ok |-> TRUE, store |-> st]
      ELSE [ok |-> TRUE,
            store |-> st \cup {[id |-> p.id, type |-> p.type, lat |-> p.lat,
                                lon |-> p.lon, tags |-> p.tags, nodes |-> p.nodes,
                                source |-> p.source, updated_at |-> t]}]

\* the conflict branch split in two statements of which only the first, the
\* one setting type, lat and lon, is run
DbRunUpdateCoordsOnly(st, p, t, dbErr) ==
  IF dbErr \/ NotNullViolated(p)
    THEN [ok |-> FALSE, store |-> st]
    ELSE IF \E r \in st : r.id = p.id
      THEN [ok |-> TRUE,
            store |-> {IF r.id = p.id
                         THEN [r EXCEPT !.type = p.type, !.lat = p.lat, !.lon = p.lon,
                                        !.updated_at = t]
                         ELSE r : r \in st}]
      ELSE [ok |-> TRUE,
            store |-> st \cup {[id |-> p.id, type |-> p.type, lat |-> p.lat,
                                lon |-> p.lon, tags |-> p.tags, nodes |-> p.nodes,
                                source |-> p.source, updated_at |-> t]}]

\* INSERT ... VALUES (?, ...) ON CONFLICT(id) DO UPDATE SET type = ?, ... :
\* p are the bound parameters, t is CURRENT_TIMESTAMP, dbErr an engine error
\* (I/O, busy, full).  The statement either applies as a whole or not at all.
DbRunUpsert(st, p, t, dbErr) ==
  IF dbErr \/ NotNullViolated(p)
    THEN [ok |-> FALSE, store |-> st]
    ELSE IF \E r \in st : r.id = p.id
      THEN [ok |-> TRUE,
            store |-> {IF r.id = p.id
                         THEN [r EXCEPT !.type = p.type,
                                        !.lat = p.lat,
                                        !.lon = p.lon,
                                        !.tags = p.tags,
                                        !.nodes = p.nodes,
                                        !.source = p.source,
                                        !.updated_at = t]
                         ELSE r : r \in st}]
      ELSE [ok |-> TRUE,
            store |-> st \cup {[id |-> p.id, type |-> p.type, lat |-> p.lat,
                                lon |-> p.lon, tags |-> p.tags, nodes |-> p.nodes,
                                source |-> p.source, updated_at |-> t]}]

(***************************************************************************)
(* The entity normalizer: the part of upsertLocation before the statement. *)
(***************************************************************************)
YesNo(b) == IF b THEN "yes" ELSE "no"

\* the merge with the payment flags computed first, so that the spread maps
\* override them
MergedTagsFlagsFirst(osmTags, elementTags) ==
  ObjSpread(
    ObjSpread(
      ObjSet(
        ObjSet(<<>>, "payment:bitcoin",
               YesNo(\/ ObjGet(osmTags, "payment:bitcoin") = Some("yes")
                     \/ ObjGet(elementTags, "payment:onchain") = Some("yes")
                     \/ ObjGet(elementTags, "currency:XBT") = Some("yes"))),
        "payment:lightning",
        YesNo(\/ ObjGet(osmTags, "payment:lightning") = Some("yes")
              \/ ObjGet(elementTags, "payment:lightning") = Some("yes"))),
      osmTags),
    elementTags)

\* the merge with the two spreads in the other order, so that inner tags win
MergedTagsInnerWins(osmTags, elementTags) ==
  ObjSet(
    ObjSet(
      ObjSpread(ObjSpread(<<>>, elementTags), osmTags),
      "payment:bitcoin",
      YesNo(\/ ObjGet(osmTags, "payment:bitcoin") = Some("yes")
            \/ ObjGet(elementTags, "payment:onchain") = Some("yes")
            \/ ObjGet(elementTags, "currency:XBT") = Some("yes"))),
    "payment:lightning",
    YesNo(\/ ObjGet(osmTags, "payment:lightning") = Some("yes")
          \/ ObjGet(elementTags, "payment:lightning") = Some("yes")))

\* the merge without the recomputation of the payment flags
MergedTagsNoFlags(osmTags, elementTags) ==
  ObjSpread(ObjSpread(<<>>, osmTags), elementTags)

\* mergedTags of a BTCMap record
MergedTags(osmTags, elementTags) ==
  ObjSet(
    ObjSet(
      ObjSpread(ObjSpread(<<>>, osmTags), elementTags),
      "payment:bitcoin",
      YesNo(\/ ObjGet(osmTags, "payment:bitcoin") = Some("yes")
            \/ ObjGet(elementTags, "payment:onchain") = Some("yes")
            \/ ObjGet(elementTags, "currency:XBT") = Some("yes"))),
    "payment:lightning",
    YesNo(\/ ObjGet(osmTags, "payment:lightning") = Some("yes")
          \/ ObjGet(elementTags, "payment:lightning") = Some("yes")))

\* x || {}
OrEmpty(optObj) == IF IsSome(optObj) THEN Get(optObj) ELSE <<>>

\* a relation placed at the south-west corner of its bounds
BtcmapCoordsCorner(osmData) ==
  IF osmData.type = "node"
    THEN <<osmData.lat, osmData.lon>>
    ELSE IF osmData.type = "way"
      THEN IF IsSome(osmData.geometry) /\ Len(Get(osmData.geometry)) > 0
             THEN <<Some(Get(osmData.geometry)[1][1]), Some(Get(osmData.geometry)[1][2])>>
             ELSE <<None, None>>
      ELSE IF osmData.type = "relation" /\ IsSome(osmData.bounds)
        THEN <<Some(Get(osmData.bounds).minlat), Some(Get(osmData.bounds).minlon)>>
        ELSE <<None, None>>

\* lat, lon of a BTCMap record as an option pair <<lat, lon>> of options
BtcmapCoords(osmData) ==
  IF osmData.type = "node"
    THEN <<osmData.lat, osmData.lon>>
    ELSE IF osmData.type = "way"
      THEN IF IsSome(osmData.geometry) /\ Len(Get(osmData.geometry)) > 0
             THEN <<Some(Get(osmData.geometry)[1][1]), Some(Get(osmData.geometry)[1][2])>>
             ELSE <<None, None>>
      ELSE IF osmData.type = "relation"
        THEN IF IsSome(osmData.bounds)
               THEN <<Some((Get(osmData.bounds).minlat + Get(osmData.bounds).maxlat) \div 2),
                      Some((Get(osmData.bounds).minlon + Get(osmData.bounds).maxlon) \div 2)>>
               ELSE <<None, None>>
        ELSE <<None, None>>

\* the bound parameters upsertLocation computes for a BTCMap record
NormalizeBtcmap(element, source) ==
  LET osmData == Get(element.osm_json)
      coords == BtcmapCoords(osmData)
  IN [id |-> osmData.id,
      type |-> Some(osmData.type),
      lat |-> coords[1],
      lon |-> coords[2],
      tags |-> Some(JSONstringify(MergedTags(OrEmpty(osmData.tags), OrEmpty(element.tags)))),
      nodes |-> IF osmData.type = "way" THEN JSONstringifyList(osmData.nodes) ELSE None,
      source |-> Some(source)]

\* the bound parameters upsertLocation computes for an Overpass element
NormalizeOverpass(element, source) ==
  [id |-> element.id,
   type |-> Some(element.type),
   lat |-> IF IsSome(element.lat)
             THEN element.lat
             ELSE IF IsSome(element.center) THEN Some(Get(element.center)[1]) ELSE None,
   lon |-> IF IsSome(element.lon)
             THEN element.lon
             ELSE IF IsSome(element.center) THEN Some(Get(element.center)[2]) ELSE None,
   tags |-> IF IsSome(element.tags) THEN Some(JSONstringify(Get(element.tags))) ELSE None,
   nodes |-> IF IsSome(element.nodes) THEN JSONstringifyList(element.nodes) ELSE None,
   source |-> Some(source)]

\* "osm_json" in element selects the branch
Normalize(element, source) ==
  IF IsSome(element.osm_json)
    THEN NormalizeBtcmap(element, source)
    ELSE NormalizeOverpass(element, source)

\* upsertLocation(element, source): resolves (ok) or rejects, with the new store
upsertLocation(st, element, source, t, dbErr) ==
  DbRunUpsert(st, Normalize(element, source), t, dbErr)

(***************************************************************************)
(* Read accessors.                                                         *)
(***************************************************************************)
RowToLocation(r) ==
  [id |-> r.id, type |-> r.type, lat |-> r.lat, lon |-> r.lon,
   tags |-> IF IsSome(r.tags) THEN Some(JSONparse(Get(r.tags))) ELSE None,
   source |-> r.source]

getAllLocations(st) == {RowToLocation(r) : r \in st}

getLocationCoordinates(st) ==
  {[id |-> r.id, type |-> r.type, lat |-> r.lat, lon |-> r.lon] : r \in st}

getLocationById(st, id) ==
  IF \E r \in st : r.id = id
    THEN Some(RowToLocation(CHOOSE r \in st : r.id = id))
    ELSE None

\* the decimal digit characters; a string is the sequence of its characters
DigitChar(d) == <<"0", "1", "2", "3", "4", "5", "6", "7", "8", "9">>[d + 1]

IsDigit(c) == \E d \in 0..9 : DigitChar(d) = c

DigitVal(c) == CHOOSE d \in 0..9 : DigitChar(d) = c

RECURSIVE DigitPrefixLen(_)
DigitPrefixLen(str) ==
  IF str = <<>> \/ ~IsDigit(Head(str)) THEN 0 ELSE 1 + DigitPrefixLen(Tail(str))

RECURSIVE DecimalValue(_)
DecimalValue(digits) ==
  IF digits = <<>>
    THEN 0
    ELSE 10 * DecimalValue(SubSeq(digits, 1, Len(digits) - 1))
           + DigitVal(digits[Len(digits)])

\* parseInt(str, 10) for a string without leading blanks or sign: the value
\* of the longest prefix of digits, NaN (None) when the prefix is empty
parseInt(str) ==
  IF DigitPrefixLen(str) = 0
    THEN None
    ELSE Some(DecimalValue(SubSeq(str, 1, DigitPrefixLen(str))))

\* getLocationById(id: string): WHERE id = ? bound to parseInt(id, 10); NaN is
\* bound as NULL, which no id equals
getLocationByIdString(st, str) ==
  IF IsSome(parseInt(str)) THEN getLocationById(st, Get(parseInt(str))) ELSE None

\* x || 0 for a count: SUM over no rows is NULL
OrZero(optN) == IF IsSome(optN) THEN Get(optN) ELSE 0

\* a SUM that takes a relation for a way
SumCaseTypeOrRelation(st, type) ==
  IF st = {}
    THEN None
    ELSE Some(Cardinality({r \in st :
                             \/ r.type = Some(type)
                             \/ type = "way" /\ r.type = Some("relation")}))

SumCaseType(st, type) ==
  IF st = {} THEN None ELSE Some(Cardinality({r \in st : r.type = Some(type)}))

\* the nodes column summing 1 for every row
getLocationStatsNodesAll(st) ==
  [total_locations |-> OrZero(Some(Cardinality(st))),
   nodes |-> OrZero(Some(Cardinality(st))),
   ways |-> OrZero(SumCaseType(st, "way"))]

\* getLocationStats: COUNT(*), SUM(CASE WHEN type = 'node' ...), SUM(... 'way' ...)
getLocationStats(st) ==
  [total_locations |-> OrZero(Some(Cardinality(st))),
   nodes |-> OrZero(SumCaseType(st, "node")),
   ways |-> OrZero(SumCaseType(st, "way"))]

\* json_extract(tags, '$.addr:country')
CountryOf(r) == ObjGet(JSONparse(Get(r.tags)), "addr:country")

\* getCountryStats: one {country, count} row per group, copied into an object
getCountryStats(st) ==
  [c \in {Get(CountryOf(r)) : r \in {q \in st : IsSome(CountryOf(q))}}
     |-> Cardinality({r \in st : CountryOf(r) = Some(c)})]

\* the object getPaymentStats returns from the results of its two queries
PaymentStats(stats, countries) ==
  [total_locations |-> stats.total_locations,
   by_type |-> [nodes |-> stats.nodes, ways |-> stats.ways],
   countries |-> countries]

\* getPaymentStats when nothing is written between its two queries
getPaymentStats(st) == PaymentStats(getLocationStats(st), getCountryStats(st))

\* the body of GET /api/stats, answered at instant t: last_updated is
\* new Date() (instants of the one clock stand for their renderings)
StatsBody(stats, t) ==
  [total_locations |-> stats.total_locations,
   location_types |-> [physical_locations |-> stats.by_type.nodes,
                       areas_or_buildings |-> stats.by_type.ways],
   countries |-> [total_countries |-> Cardinality(DOMAIN stats.countries),
                  distribution |-> stats.countries],
   last_updated |-> t]

(***************************************************************************)
(* Raw records of the two upstream schemas.                                *)
(***************************************************************************)
\* an OverpassElement: {type, id, lat?, lon?, nodes?, center?, tags?}
OverpassEl(id, type, lat, lon, center, nodes, tags) ==
  [osm_json |-> None, id |-> id, type |-> type, lat |-> lat, lon |-> lon,
   center |-> center, nodes |-> nodes, tags |-> tags]

\* the nested OSM object of a BTCMap record
OsmJson(id, type, lat, lon, geometry, bounds, nodes, tags) ==
  [id |-> id, type |-> type, lat |-> lat, lon |-> lon, geometry |-> geometry,
   bounds |-> bounds, nodes |-> nodes, tags |-> tags]

\* an OSMRecord: {id, osm_json, tags, ...}; the envelope has no lat, lon, center, nodes
BtcmapRec(osm, tags) ==
  [osm_json |-> Some(osm), id |-> osm.id, type |-> "record", lat |-> None,
   lon |-> None, center |-> None, nodes |-> None, tags |-> tags]

Ids == {7, 42}

Sources == {"overpass", "btcmap"}

TagsA == << <<"a", "1">> >>

TagsB == << <<"b", "2">> >>

Bounds4041 == [minlat |-> 400, maxlat |-> 410, minlon |-> -740, maxlon |-> -730]

\* the records the direct upsert calls are drawn from
UpsertElements ==
  UNION {
    { OverpassEl(i, "node", Some(10), Some(20), None, None, Some(TagsA)),
      OverpassEl(i, "way", None, None, Some(<<30, 40>>), Some(<<1, 2>>), Some(TagsB)),
      OverpassEl(i, "way", None, None, None, Some(<<1, 2>>), Some(TagsB)),
      BtcmapRec(OsmJson(i, "node", Some(11), Some(21), None, None, None, Some(TagsA)),
                Some(TagsB)),
      BtcmapRec(OsmJson(i, "way", None, None, Some(<<>>), None, Some(<<4, 5>>),
                        Some(TagsA)),
                Some(TagsB)) } : i \in Ids }

(***************************************************************************)
(* Initial state: the table exists and is empty, nothing is scheduled.     *)
(***************************************************************************)
\* One invocation of updateBitcoinLocations.  pc is the await it is suspended
\* at; batch the array being iterated (overpassResponse.elements, then
\* btcmapLocations) and i the index of the element whose upsert is awaited;
\* overpassUpdatedCount and btcmapUpdatedCount are the function's counters.
\* The other fields record what the invocation did: results the outcomes of
\* the upserts of the current batch, called the labels it called
\* upsertLocation with, okA the ids whose Overpass upsert resolved,
\* replacedBtcmapRow whether one of its Overpass upserts overwrote a row
\* labelled btcmap, fetchedB whether fetchBtcmapLocations was invoked, retries
\* the number of setTimeout calls, failedAt the fetch that threw.
NoPass ==
  [pc |-> "idle", batch |-> <<>>, i |-> 0,
   overpassUpdatedCount |-> 0, btcmapUpdatedCount |-> 0,
   results |-> <<>>, called |-> {}, okA |-> {}, replacedBtcmapRow |-> FALSE,
   fetchedB |-> FALSE, retries |-> 0, failedAt |-> "none"]

\* the state of an invocation at its first await
FreshPass == [NoPass EXCEPT !.pc = "fetchingA"]

\* CACHE_DURATION, 5 minutes, in ticks of the browser's clock (2.5 minutes)
CACHE_DURATION == 2

\* the module state of the client's API service when the script has loaded:
\* the three caches and lastFetchTime; clock is Date.now() (the page is
\* opened long after the epoch), pending the fetch functions with a network
\* request in flight, ret the latest return or throw of a fetch function
ApiInit ==
  [locationsCache |-> None, coordinatesCache |-> None, statsCache |-> None,
   lastFetchTime |-> 0, clock |-> CACHE_DURATION, pending |-> {}, ret |-> None]

\* one invocation of Home.loadData: pc is the await it is suspended at,
\* retries its counter; coordinatesCalls and statsCalls count its calls of
\* fetchCoordinates and fetchStats, succeeded records a fetchCoordinates that
\* resolved, cached that the call it awaits found its cache filled and fresh,
\* threw that it went through its catch block
NoLoad ==
  [pc |-> "idle", isRefreshRequest |-> FALSE, retries |-> 0,
   coordinatesCalls |-> 0, statsCalls |-> 0, succeeded |-> FALSE,
   cached |-> FALSE, threw |-> FALSE]

\* the state of the Home component at its first render: the useState values,
\* the latest invocation of loadData and the pending one-second timers
PageInit ==
  [coordinates |-> None, stats |-> None, loading |-> TRUE, error |-> None,
   isRefreshing |-> FALSE, isLoadingStats |-> TRUE, mounted |-> FALSE,
   load |-> NoLoad, statsTimers |-> 0]

InitCommon ==
  /\ store = {}
  /\ now = 0
  /\ last = None
  /\ lastOk = [id \in Ids |-> None]
  /\ passes = [p \in 1..MaxPasses |-> NoPass]
  /\ timers = 0
  /\ started = FALSE
  /\ response = None
  /\ api = ApiInit
  /\ page = PageInit

(***************************************************************************)
(* Direct calls of upsertLocation, and the passing of time.                *)
(***************************************************************************)
\* the clock behind CURRENT_TIMESTAMP
Tick ==
  /\ now < MaxTime
  /\ now' = now + 1
  /\ UNCHANGED <<store, last, lastOk, passes, timers, started, input, response, api, page>>

\* what a call of upsertLocation does to the store, and the record of the call:
\* last is the latest call (dbErr: the engine failed on a statement the schema
\* accepts; repeat: it has the arguments of the call before it; replaced: it
\* resolved and overwrote a row of another type), lastOk[id] the parameters of
\* the latest call that resolved for id
UpsertEffect(element, source, dbErr) ==
  LET res == upsertLocation(store, element, source, now, dbErr)
      p == Normalize(element, source)
  IN /\ store' = res.store
     /\ last' = Some([element |-> element, source |-> source, ok |-> res.ok,
                      dbErr |-> dbErr /\ ~NotNullViolated(p),
                      repeat |-> /\ IsSome(last)
                                 /\ Get(last).element = element
                                 /\ Get(last).source = source,
                      replaced |-> /\ res.ok
                                   /\ \E r \in store : r.id = p.id /\ r.type # p.type])
     /\ lastOk' = IF res.ok THEN [lastOk EXCEPT ![p.id] = Some(p)] ELSE lastOk

UpsertCall ==
  \E element \in UpsertElements, source \in Sources, dbErr \in BOOLEAN :
    /\ UpsertEffect(element, source, dbErr)
    /\ UNCHANGED <<now, passes, timers, started, input, response, api, page>>

InitUpsert == InitCommon /\ input = None

NextUpsert == UpsertCall \/ Tick

SpecUpsert == InitUpsert /\ [][NextUpsert]_vars

(***************************************************************************)
(* Properties of the store under direct calls (SpecUpsert).                *)
(***************************************************************************)
\* the columns of a row that a call binds
RowParams(r) ==
  [id |-> r.id, type |-> r.type, lat |-> r.lat, lon |-> r.lon, tags |-> r.tags,
   nodes |-> r.nodes, source |-> r.source]

\* a row without its timestamp
RowObs(r) == [r EXCEPT !.updated_at = 0]

Obs(st) == {RowObs(r) : r \in st}

StoreIds(st) == {r.id : r \in st}

\* C1: the store holds exactly one row for every id that was ever upserted
\* successfully and none for any other id, and that row equals, in every
\* column a call binds, the normalization of the last successful upsert for
\* the id.
C1_LastWriteWins ==
  /\ StoreIds(store) \subseteq Ids
  /\ \A id \in Ids :
       LET rows == {r \in store : r.id = id}
       IN IF lastOk[id] = None
            THEN rows = {}
            ELSE /\ Cardinality(rows) = 1
                 /\ \A r \in rows : RowParams(r) = Get(lastOk[id])

\* C1 witness: id 42 was written as a node and then, by the latest call, as a
\* way with tags {b:2}; the row is a way and its decoded tags have no key a.
C1_Witness ==
  /\ IsSome(last)
  /\ Get(last).replaced
  /\ Get(last).element.id = 42
  /\ Get(lastOk[42]).type = Some("way")
  /\ IsSome(getLocationById(store, 42))
  /\ Get(getLocationById(store, 42)).type = Some("way")
  /\ Get(Get(getLocationById(store, 42)).tags) = TagsB
  /\ ~ObjHas(Get(Get(getLocationById(store, 42)).tags), "a")

\* a call the schema rejects whatever the engine does
SchemaRejects(call) == NotNullViolated(Normalize(call.element, call.source))

\* C2: a call that repeats the arguments of the call before it leaves every
\* row as it was in all columns but updated_at, which does not go back, and
\* resolves unless the engine fails, when the first call resolved; and it is
\* rejected and changes nothing when the first was rejected by the schema.
C2_Idempotent ==
  [][(/\ IsSome(last) /\ IsSome(last')
      /\ Get(last').element = Get(last).element
      /\ Get(last').source = Get(last).source)
     => /\ Get(last).ok =>
             /\ Obs(store') = Obs(store)
             /\ \A r \in store : \A q \in store' :
                  q.id = r.id => q.updated_at >= r.updated_at
             /\ ~Get(last').dbErr => Get(last').ok
        /\ SchemaRejects(Get(last)) =>
             /\ ~Get(last').ok
             /\ store' = store]_vars

\* C2 witness: a record was upserted twice in a row, both calls resolved, and
\* the second one stamped the row at a later time.
C2_Witness ==
  /\ IsSome(last)
  /\ Get(last).repeat
  /\ Get(last).ok
  /\ \E r \in store : r.id = Normalize(Get(last).element, Get(last).source).id
                      /\ r.updated_at = 1


\* the tag map a call writes, before it is serialized
WrittenTags(element) ==
  IF IsSome(element.osm_json)
    THEN MergedTags(OrEmpty(Get(element.osm_json).tags), OrEmpty(element.tags))
    ELSE Get(element.tags)

\* C17: getAllLocations returns one record for every stored row with non-null
\* lat and lon and no other, getLocationCoordinates the {id, type, lat, lon}
\* projection of the same records, and the tags of the record of the row the
\* latest resolved call wrote are the tag map that call serialized.
C17_Listings ==
  /\ getAllLocations(store) =
       {RowToLocation(r) : r \in {q \in store : q.lat # None /\ q.lon # None}}
  /\ getLocationCoordinates(store) =
       {[id |-> l.id, type |-> l.type, lat |-> l.lat, lon |-> l.lon] :
          l \in getAllLocations(store)}
  /\ Cardinality(getAllLocations(store)) = Cardinality(getLocationCoordinates(store))
  /\ {l.id : l \in getAllLocations(store)} = {c.id : c \in getLocationCoordinates(store)}
  /\ \A l \in getAllLocations(store) : l.lat # None /\ l.lon # None
  /\ (IsSome(last) /\ Get(last).ok) =>
       \E l \in getAllLocations(store) :
         /\ l.id = Normalize(Get(last).element, Get(last).source).id
         /\ l.tags = Some(WrittenTags(Get(last).element))

\* C17 witness: two rows are stored, a BTCMap node (id 7) and an Overpass way
\* with center (id 42), the latest call (a way without coordinates) was
\* rejected, and both listings return the two of them.
C17_Witness ==
  /\ IsSome(last)
  /\ ~Get(last).ok
  /\ SchemaRejects(Get(last))
  /\ Cardinality(getLocationCoordinates(store)) = 2
  /\ [id |-> 7, type |-> Some("node"), lat |-> Some(11), lon |-> Some(21)]
       \in getLocationCoordinates(store)
  /\ \E l \in getAllLocations(store) :
       /\ l.id = 42 /\ l.source = Some("overpass")
       /\ l.lat = Some(30) /\ l.tags = Some(TagsB)

(***************************************************************************)
(* One normalization of one aggregator record (SpecNorm): the record is    *)
(* drawn in the initial state and upserted once into the empty store.      *)
(***************************************************************************)
\* the pair <<k, v>> when the key is given a value, nothing otherwise
Pair(k, optv) == IF IsSome(optv) THEN << <<k, Get(optv)>> >> ELSE <<>>

OptYesNo == {None, Some("yes"), Some("no")}

\* the inner tag maps (osm_json.tags), absent included
InnerTagMaps ==
  {None} \cup
  { Some(Pair("payment:bitcoin", pb) \o Pair("name", nm) \o Pair("payment:lightning", pl)) :
      pb \in OptYesNo, pl \in OptYesNo, nm \in {None, Some("inner")} }

\* the outer tag maps (record.tags), absent included
OuterTagMaps ==
  {None} \cup
  UNION { { Some(Pair("payment:lightning", pl) \o Pair("payment:onchain", oc)
                 \o Pair("name", nm) \o Pair("currency:XBT", xbt)
                 \o Pair("payment:bitcoin", pb)) :
              pb \in OptYesNo, pl \in OptYesNo, oc \in OptYesNo }
          : nm \in {None, Some("outer")}, xbt \in {None, Some("yes")} }

\* the geometry classes of an aggregator record
OsmShapes(tags) ==
  { OsmJson(42, "node", Some(11), Some(21), None, None, None, tags),
    OsmJson(42, "way", None, None, Some(<< <<50, 60>>, <<51, 61>> >>), None,
            Some(<<4, 5>>), tags),
    OsmJson(42, "way", None, None, Some(<<>>), None, Some(<<4, 5>>), tags),
    OsmJson(42, "way", None, None, None, None, Some(<<4, 5>>), tags),
    OsmJson(42, "relation", None, None, None, Some(Bounds4041), None, tags),
    OsmJson(42, "relation", None, None, None, None, None, tags) }

NormInputs ==
  UNION { { [element |-> BtcmapRec(osm, outer), source |-> "btcmap"] :
              osm \in OsmShapes(inner) }
          : inner \in InnerTagMaps, outer \in OuterTagMaps }

InitNorm ==
  /\ InitCommon
  /\ input \in {Some(x) : x \in NormInputs}

\* the one call upsertLocation(input.element, input.source)
NormUpsert ==
  /\ IsSome(input)
  /\ last = None
  /\ \E dbErr \in BOOLEAN : UpsertEffect(Get(input).element, Get(input).source, dbErr)
  /\ UNCHANGED <<now, passes, timers, started, input, response, api, page>>

NextNorm == NormUpsert

SpecNorm == InitNorm /\ [][NextNorm]_vars

\* the inner and outer tag maps of the drawn record, and the decoded tags of
\* the row stored for it
InnerTags == OrEmpty(Get(Get(input).element.osm_json).tags)

OuterTags == OrEmpty(Get(input).element.tags)

StoredTags ==
  Get(Get(getLocationById(store, Get(Get(input).element.osm_json).id)).tags)

\* the record was upserted and the call resolved
NormStored == IsSome(input) /\ IsSome(last) /\ Get(last).ok

\* a BTCMap record whose osm_json is a way with an empty or absent geometry
IsWayWithoutGeometry(element) ==
  /\ IsSome(element.osm_json)
  /\ Get(element.osm_json).type = "way"
  /\ \/ Get(element.osm_json).geometry = None
     \/ Get(element.osm_json).geometry = Some(<<>>)

\* C7 (as claimed): a call for an aggregator way without geometry resolves and
\* stores a row with lat = null and lon = null, which getLocationById returns
\* and getAllLocations / getLocationCoordinates do not.
C7_WayFallbackStored ==
  (/\ IsSome(last)
   /\ IsWayWithoutGeometry(Get(last).element)
   /\ Get(last).source = "btcmap"
   /\ ~Get(last).dbErr)
  => LET id == Get(Get(last).element.osm_json).id
         loc == getLocationById(store, id)
     IN /\ Get(last).ok
        /\ IsSome(loc)
        /\ Get(loc).lat = None
        /\ Get(loc).lon = None
        /\ \A l \in getAllLocations(store) : l.id # id
        /\ \A c \in getLocationCoordinates(store) : c.id # id

\* C8: the stored payment:bitcoin is "yes" iff inner payment:bitcoin, outer
\* payment:onchain or outer currency:XBT is "yes", else "no"; the stored
\* payment:lightning is "yes" iff inner or outer payment:lightning is "yes",
\* else "no".
C8_PaymentFlags ==
  NormStored =>
    /\ ObjGet(StoredTags, "payment:bitcoin") =
         Some(IF \/ ObjGet(InnerTags, "payment:bitcoin") = Some("yes")
                 \/ ObjGet(OuterTags, "payment:onchain") = Some("yes")
                 \/ ObjGet(OuterTags, "currency:XBT") = Some("yes")
                THEN "yes" ELSE "no")
    /\ ObjGet(StoredTags, "payment:lightning") =
         Some(IF \/ ObjGet(InnerTags, "payment:lightning") = Some("yes")
                 \/ ObjGet(OuterTags, "payment:lightning") = Some("yes")
                THEN "yes" ELSE "no")

\* C8 witness: only the outer map says payment:bitcoin = yes, and the stored
\* flag is "no".
C8_Witness ==
  /\ NormStored
  /\ InnerTags = <<>>
  /\ OuterTags = << <<"payment:bitcoin", "yes">> >>
  /\ ObjGet(StoredTags, "payment:bitcoin") = Some("no")
  /\ ObjGet(StoredTags, "payment:lightning") = Some("no")

\* the tag keys of the model other than the two recomputed ones
OtherKeys == {"name", "payment:onchain", "currency:XBT"}

\* C10: a key other than the two payment flags is in the stored tags iff it
\* is in the inner or the outer map, with the outer value when the outer map
\* carries it and the inner value otherwise.
C10_TagMerge ==
  NormStored =>
    /\ ObjKeys(StoredTags) \ {"payment:bitcoin", "payment:lightning"} =
         (ObjKeys(InnerTags) \cup ObjKeys(OuterTags))
           \ {"payment:bitcoin", "payment:lightning"}
    /\ \A k \in OtherKeys :
         ObjGet(StoredTags, k) =
           IF ObjHas(OuterTags, k) THEN ObjGet(OuterTags, k) ELSE ObjGet(InnerTags, k)

\* C10 witness: both maps carry name, and the outer value is stored.
C10_Witness ==
  /\ NormStored
  /\ ObjGet(InnerTags, "name") = Some("inner")
  /\ ObjGet(OuterTags, "name") = Some("outer")
  /\ ObjGet(StoredTags, "name") = Some("outer")


\* the nested OSM object of the drawn record, and the row stored for it
InputOsm == Get(Get(input).element.osm_json)

StoredRow == CHOOSE r \in store : r.id = InputOsm.id

\* C24: an aggregator relation with bounds is stored at the midpoint of its
\* bounds (bounds 40..41 / -74..-73 at 40.5 / -73.5), an aggregator node at
\* its own lat and lon, and an aggregator way with a non-empty geometry list
\* at the first point of the list (coordinates in tenths of a degree).
C24_BtcmapCoordinates ==
  NormStored =>
    /\ InputOsm.type = "node"
         => StoredRow.lat = InputOsm.lat /\ StoredRow.lon = InputOsm.lon
    /\ (/\ InputOsm.type = "way"
        /\ IsSome(InputOsm.geometry)
        /\ Get(InputOsm.geometry) # <<>>)
         => /\ StoredRow.lat = Some(Head(Get(InputOsm.geometry))[1])
            /\ StoredRow.lon = Some(Head(Get(InputOsm.geometry))[2])
    /\ (InputOsm.type = "relation" /\ IsSome(InputOsm.bounds))
         => /\ 2 * Get(StoredRow.lat)
                 = Get(InputOsm.bounds).minlat + Get(InputOsm.bounds).maxlat
            /\ 2 * Get(StoredRow.lon)
                 = Get(InputOsm.bounds).minlon + Get(InputOsm.bounds).maxlon
    /\ (InputOsm.type = "relation" /\ InputOsm.bounds = Some(Bounds4041))
         => StoredRow.lat = Some(405) /\ StoredRow.lon = Some(-735)

\* the relation with bounds 40..41 / -74..-73 is stored at 40.5 / -73.5
C24_Witness ==
  /\ NormStored
  /\ InputOsm.type = "relation"
  /\ InputOsm.bounds = Some(Bounds4041)
  /\ \E r \in store : r.type = Some("relation") /\ r.lat = Some(405) /\ r.lon = Some(-735)

(***************************************************************************)
(* One normalization of one OSM-query element (SpecRaw): the element is    *)
(* drawn in the initial state and upserted once into the empty store.      *)
(***************************************************************************)
\* the tag maps of an OverpassElement, absent included
RawTagMaps ==
  {None} \cup
  { Some(Pair("payment:bitcoin", pb) \o Pair("payment:lightning", pl)
         \o Pair("payment:onchain", oc) \o Pair("name", nm)) :
      pb \in OptYesNo, pl \in OptYesNo, oc \in OptYesNo, nm \in {None, Some("shop")} }

\* the geometry classes of an OverpassElement (out center: a way or relation
\* has a center unless the interpreter could not compute one)
RawShapes(tags) ==
  { OverpassEl(42, "node", Some(10), Some(20), None, None, tags),
    OverpassEl(42, "way", None, None, Some(<<30, 40>>), Some(<<1, 2>>), tags),
    OverpassEl(42, "way", None, None, None, Some(<<1, 2>>), tags),
    OverpassEl(42, "relation", None, None, Some(<<50, 60>>), None, tags),
    OverpassEl(42, "relation", None, None, None, None, tags) }

RawInputs ==
  UNION { { [element |-> e, source |-> src] : e \in RawShapes(tags) }
          : tags \in RawTagMaps, src \in Sources }

InitRaw ==
  /\ InitCommon
  /\ input \in {Some(x) : x \in RawInputs}

\* the one call upsertLocation(input.element, input.source)
RawUpsert ==
  /\ IsSome(input)
  /\ last = None
  /\ \E dbErr \in BOOLEAN : UpsertEffect(Get(input).element, Get(input).source, dbErr)
  /\ UNCHANGED <<now, passes, timers, started, input, response, api, page>>

NextRaw == RawUpsert

SpecRaw == InitRaw /\ [][NextRaw]_vars

\* the coordinates the claim gives an element: its lat/lon for a node, its
\* center otherwise, null when there is no center
RawCoords(element) ==
  IF element.type = "node"
    THEN <<element.lat, element.lon>>
    ELSE IF IsSome(element.center)
      THEN <<Some(Get(element.center)[1]), Some(Get(element.center)[2])>>
      ELSE <<None, None>>

\* C11 (as claimed): a call for an OSM-query element that carries a tag map
\* stores a row whose decoded tags are that map, whose lat/lon are the
\* element's own for a node and its center, or null without one, otherwise,
\* and whose nodes is the node-id list when the element has one, else null.
C11_OverpassStoredRaw ==
  (/\ IsSome(last)
   /\ Get(last).element.osm_json = None
   /\ IsSome(Get(last).element.tags)
   /\ ~Get(last).dbErr)
  => LET element == Get(last).element
         loc == getLocationById(store, element.id)
     IN /\ Get(last).ok
        /\ IsSome(loc)
        /\ Get(loc).tags = element.tags
        /\ <<Get(loc).lat, Get(loc).lon>> = RawCoords(element)
        /\ \A r \in store : r.id = element.id => r.nodes = element.nodes

(***************************************************************************)
(* The sync orchestrator (Spec): updateBitcoinLocations, its triggers and  *)
(* the two upstream feeds.  No accessor and no step of a pass reads        *)
(* updated_at, so the clock stands still here; rejections of an upsert     *)
(* come from the schema (the engine itself is taken not to fail).          *)
(***************************************************************************)
\* the entities the OSM-query interpreter knows, in the order it returns
\* them: a node, a way without center (rejected: lat, lon NOT NULL), a way
\* with center
OverpassEntities ==
  << OverpassEl(7, "node", Some(10), Some(20), None, None,
                Some(<< <<"payment:bitcoin", "yes">> >>)),
     OverpassEl(13, "way", None, None, None, Some(<<1, 2>>),
                Some(<< <<"payment:bitcoin", "yes">> >>)),
     OverpassEl(42, "way", None, None, Some(<<30, 40>>), Some(<<1, 2>>),
                Some(<< <<"payment:bitcoin", "yes">>, <<"name", "shop">> >>)) >>

\* the entities the aggregator feed knows, in the order it lists them: a
\* node, a way with an empty geometry (rejected), a relation with bounds
BtcmapEntities ==
  << BtcmapRec(OsmJson(7, "node", Some(11), Some(21), None, None, None, Some(<<>>)),
               Some(<< <<"payment:onchain", "yes">> >>)),
     BtcmapRec(OsmJson(42, "way", None, None, Some(<<>>), None, Some(<<4, 5>>),
                       Some(<< <<"payment:bitcoin", "yes">> >>)),
               Some(<<>>)),
     BtcmapRec(OsmJson(13, "relation", None, None, None, Some(Bounds4041), None,
                       Some(<< <<"payment:bitcoin", "yes">> >>)),
               Some(<< <<"payment:bitcoin", "no">> >>)) >>

\* a record only a failed aggregator reply carries (an error page's body, or
\* the content of an object that is not an array)
StaleRecord ==
  BtcmapRec(OsmJson(7, "node", Some(12), Some(22), None, None, None,
                    Some(<< <<"name", "stale">> >>)),
            Some(<<>>))

\* the elements of seq at the positions in keep, in order
RECURSIVE Select(_, _, _)
Select(seq, keep, k) ==
  IF k > Len(seq)
    THEN <<>>
    ELSE (IF k \in keep THEN <<seq[k]>> ELSE <<>>) \o Select(seq, keep, k + 1)

\* the bound parameters of every call a pass can make, computed once: the
\* normalization of each feed record under each label
FeedNormalize ==
  [c \in {[element |-> e, source |-> src] :
            e \in {OverpassEntities[k] : k \in 1..Len(OverpassEntities)}
                    \cup {BtcmapEntities[k] : k \in 1..Len(BtcmapEntities)}
                    \cup {StaleRecord},
            src \in Sources}
     |-> Normalize(c.element, c.source)]

\* db.upsertLocation(element, source) called on a feed record
upsertFeedRecord(st, element, source, t, dbErr) ==
  DbRunUpsert(st, FeedNormalize[[element |-> element, source |-> source]], t, dbErr)

\* a feed snapshot: any of the entities may be missing from a given fetch
Feeds(entities) ==
  {Select(entities, keep, 1) : keep \in SUBSET (1..Len(entities))}

\* the responses fetchBitcoinLocations can resolve with (their elements)
OverpassFeeds == Feeds(OverpassEntities)

\* the arrays the aggregator can serve
BtcmapFeeds == Feeds(BtcmapEntities)

\* what fetch(BTCMAP_API_URL) and response.json() can give: rejects is a
\* network error, ok is response.ok, json the kind of the decoded body
\* ("invalid" when response.json() throws) and items the records in it
BtcmapReplies ==
  {[rejects |-> TRUE, ok |-> FALSE, json |-> "invalid", items |-> <<>>]}
    \cup {[rejects |-> FALSE, ok |-> FALSE, json |-> "array", items |-> <<StaleRecord>>]}
    \cup {[rejects |-> FALSE, ok |-> TRUE, json |-> "invalid", items |-> <<StaleRecord>>]}
    \cup {[rejects |-> FALSE, ok |-> TRUE, json |-> "object", items |-> <<StaleRecord>>]}
    \cup {[rejects |-> FALSE, ok |-> TRUE, json |-> "array", items |-> feed] :
            feed \in BtcmapFeeds}

\* the fetch without the response.ok test: the body of an error reply is used
fetchBtcmapLocationsNoOkTest(reply) ==
  IF reply.rejects \/ reply.json # "array"
    THEN [resolved |-> FALSE, data |-> <<>>]
    ELSE [resolved |-> TRUE, data |-> reply.items]

\* fetchBtcmapLocations: the promise resolves with data or rejects
fetchBtcmapLocations(reply) ==
  IF reply.rejects
    THEN [resolved |-> FALSE, data |-> <<>>]
    ELSE IF ~reply.ok
      THEN [resolved |-> FALSE, data |-> <<>>]
      ELSE IF reply.json = "invalid"
        THEN [resolved |-> FALSE, data |-> <<>>]
        ELSE IF reply.json # "array"
          THEN [resolved |-> FALSE, data |-> <<>>]
          ELSE [resolved |-> TRUE, data |-> reply.items]

FeedIds(batch) ==
  {(IF IsSome(batch[k].osm_json) THEN Get(batch[k].osm_json).id ELSE batch[k].id) :
     k \in 1..Len(batch)}

Passes == 1..MaxPasses

InFlight(p) ==
  passes[p].pc \in {"fetchingA", "upsertingA", "fetchingB", "upsertingB"}

NumInFlight == Cardinality({p \in Passes : InFlight(p)})

\* the slot a new invocation runs in
FreeSlot == CHOOSE p \in Passes : ~InFlight(p) /\ \A q \in Passes : q < p => InFlight(q)

\* updateBitcoinLocations() is called: it runs up to the await of the Overpass fetch
StartPass ==
  passes' = [passes EXCEPT ![FreeSlot] = [NoPass EXCEPT !.pc = "fetchingA"]]

\* module load: cron.schedule(...), then the initial updateBitcoinLocations()
Startup ==
  /\ ~started
  /\ started' = TRUE
  /\ StartPass
  /\ UNCHANGED <<store, now, last, lastOk, timers, input, response, api, page>>

\* the hourly cron tick
CronTick ==
  /\ started
  /\ \E p \in Passes : ~InFlight(p)
  /\ timers + NumInFlight < MaxPending
  /\ StartPass
  /\ UNCHANGED <<store, now, last, lastOk, timers, started, input, response, api, page>>

\* a retry timer set by a failed pass fires
RetryFire ==
  /\ timers > 0
  /\ \E p \in Passes : ~InFlight(p)
  /\ timers' = timers - 1
  /\ StartPass
  /\ UNCHANGED <<store, now, last, lastOk, started, input, response, api, page>>

\* the Overpass failure caught around the fetch alone: the retry is set but
\* the function goes on to the BTCMap step
FetchOverpassFailContinues(p) ==
  /\ passes[p].pc = "fetchingA"
  /\ passes' = [passes EXCEPT ![p] = [@ EXCEPT !.pc = "fetchingB",
                                               !.fetchedB = TRUE,
                                               !.failedAt = "overpass",
                                               !.retries = @ + 1]]
  /\ timers' = timers + 1
  /\ UNCHANGED <<store, now, last, lastOk, started, input, response, api, page>>

\* the catch block without its setTimeout
FetchOverpassFailNoRetry(p) ==
  /\ passes[p].pc = "fetchingA"
  /\ passes' = [passes EXCEPT ![p] = [@ EXCEPT !.pc = "failed",
                                               !.failedAt = "overpass"]]
  /\ UNCHANGED <<store, now, last, lastOk, timers, started, input, response, api, page>>

\* the catch block of updateBitcoinLocations: log, setTimeout(retry, 5 min)
FetchOverpassFail(p) ==
  /\ passes[p].pc = "fetchingA"
  /\ passes' = [passes EXCEPT ![p] = [@ EXCEPT !.pc = "failed",
                                               !.failedAt = "overpass",
                                               !.retries = @ + 1]]
  /\ timers' = timers + 1
  /\ UNCHANGED <<store, now, last, lastOk, started, input, response, api, page>>

\* the Overpass loop issuing its upserts without awaiting them: the function
\* goes on to the BTCMap fetch while the batch is still to be written
FetchOverpassOkNoAwait(p) ==
  /\ passes[p].pc = "fetchingA"
  /\ \E elements \in OverpassFeeds :
       passes' = [passes EXCEPT ![p] =
         [@ EXCEPT !.pc = "fetchingB", !.batch = elements, !.fetchedB = TRUE]]
  /\ UNCHANGED <<store, now, last, lastOk, timers, started, input, response, api, page>>

\* the Overpass fetch resolves: the loop issues the first upsert, or, on an
\* empty list, the function goes on to call fetchBtcmapLocations
FetchOverpassOk(p) ==
  /\ passes[p].pc = "fetchingA"
  /\ \E elements \in OverpassFeeds :
       passes' = [passes EXCEPT ![p] =
         IF Len(elements) > 0
           THEN [@ EXCEPT !.pc = "upsertingA", !.batch = elements, !.i = 1,
                          !.called = @ \cup {"overpass"}]
           ELSE [@ EXCEPT !.pc = "fetchingB", !.batch = elements,
                          !.fetchedB = TRUE]]
  /\ UNCHANGED <<store, now, last, lastOk, timers, started, input, response, api, page>>

\* a resolved write for id replaces a row labelled source
Replaces(st, id, ok, source) ==
  ok /\ \E r \in st : r.id = id /\ r.source = Some(source)

\* the awaited upsertLocation(element, "overpass") settles; a rejection is
\* caught inside the loop; then the next upsert is issued or, after the last
\* element, fetchBtcmapLocations is called
UpsertOverpass(p) ==
  /\ passes[p].pc = "upsertingA"
  /\ LET ps == passes[p]
         element == ps.batch[ps.i]
         res == upsertFeedRecord(store, element, "overpass", now, FALSE)
         counted == [ps EXCEPT
                       !.overpassUpdatedCount = IF res.ok THEN @ + 1 ELSE @,
                       !.results = Append(@, res.ok),
                       !.okA = IF res.ok THEN @ \cup {element.id} ELSE @,
                       !.replacedBtcmapRow =
                          @ \/ Replaces(store, element.id, res.ok, "btcmap")]
     IN /\ store' = res.store
        /\ passes' = [passes EXCEPT ![p] =
             IF ps.i < Len(ps.batch)
               THEN [counted EXCEPT !.i = @ + 1]
               ELSE [counted EXCEPT !.pc = "fetchingB", !.fetchedB = TRUE]]
  /\ UNCHANGED <<now, last, lastOk, timers, started, input, response, api, page>>

\* the BTCMap failure logged without the setTimeout: no retry is scheduled
FetchBtcmapFailNoRetry(p) ==
  /\ passes[p].pc = "fetchingB"
  /\ passes' = [passes EXCEPT ![p] = [@ EXCEPT !.pc = "failed",
                                               !.failedAt = "btcmap"]]
  /\ UNCHANGED <<store, now, last, lastOk, timers, started, input, response, api, page>>

\* fetchBtcmapLocations throws: the same catch block
FetchBtcmapFail(p) ==
  /\ passes[p].pc = "fetchingB"
  /\ \E reply \in BtcmapReplies : ~fetchBtcmapLocations(reply).resolved
  /\ passes' = [passes EXCEPT ![p] = [@ EXCEPT !.pc = "failed",
                                               !.failedAt = "btcmap",
                                               !.retries = @ + 1]]
  /\ timers' = timers + 1
  /\ UNCHANGED <<store, now, last, lastOk, started, input, response, api, page>>

\* fetchBtcmapLocations resolves with the decoded array
FetchBtcmapOk(p) ==
  /\ passes[p].pc = "fetchingB"
  /\ \E reply \in BtcmapReplies :
       /\ fetchBtcmapLocations(reply).resolved
       /\ LET btcmapLocations == fetchBtcmapLocations(reply).data
          IN passes' = [passes EXCEPT ![p] =
               IF Len(btcmapLocations) > 0
                 THEN [@ EXCEPT !.pc = "upsertingB", !.batch = btcmapLocations,
                                !.i = 1, !.results = <<>>,
                                !.called = @ \cup {"btcmap"}]
                 ELSE [@ EXCEPT !.pc = "done", !.batch = btcmapLocations, !.i = 0,
                                !.results = <<>>]]
  /\ UNCHANGED <<store, now, last, lastOk, timers, started, input, response, api, page>>

\* the BTCMap loop without its inner try/catch: a rejected upsert reaches the
\* outer catch block, which ends the pass and sets the retry timer
UpsertBtcmapNoInnerCatch(p) ==
  /\ passes[p].pc = "upsertingB"
  /\ LET ps == passes[p]
         location == ps.batch[ps.i]
         res == upsertFeedRecord(store, location, "btcmap", now, FALSE)
         counted == [ps EXCEPT
                       !.btcmapUpdatedCount = IF res.ok THEN @ + 1 ELSE @,
                       !.results = Append(@, res.ok)]
     IN /\ store' = res.store
        /\ passes' = [passes EXCEPT ![p] =
             IF ~res.ok
               THEN [counted EXCEPT !.pc = "failed", !.failedAt = "btcmap",
                                    !.retries = @ + 1]
               ELSE IF ps.i < Len(ps.batch)
                 THEN [counted EXCEPT !.i = @ + 1]
                 ELSE [counted EXCEPT !.pc = "done"]]
        /\ timers' = IF res.ok THEN timers ELSE timers + 1
  /\ UNCHANGED <<now, last, lastOk, started, input, response, api, page>>

\* the awaited upsertLocation(location, "btcmap") settles; after the last
\* record the function returns
UpsertBtcmap(p) ==
  /\ passes[p].pc = "upsertingB"
  /\ LET ps == passes[p]
         location == ps.batch[ps.i]
         res == upsertFeedRecord(store, location, "btcmap", now, FALSE)
         counted == [ps EXCEPT
                       !.btcmapUpdatedCount = IF res.ok THEN @ + 1 ELSE @,
                       !.results = Append(@, res.ok)]
     IN /\ store' = res.store
        /\ passes' = [passes EXCEPT ![p] =
             IF ps.i < Len(ps.batch)
               THEN [counted EXCEPT !.i = @ + 1]
               ELSE [counted EXCEPT !.pc = "done"]]
  /\ UNCHANGED <<now, last, lastOk, timers, started, input, response, api, page>>

Init == InitCommon /\ input = None

Next ==
  \/ Startup
  \/ CronTick
  \/ RetryFire
  \/ \E p \in Passes : FetchOverpassOk(p)
  \/ \E p \in Passes : FetchOverpassFail(p)
  \/ \E p \in Passes : UpsertOverpass(p)
  \/ \E p \in Passes : FetchBtcmapOk(p)
  \/ \E p \in Passes : FetchBtcmapFail(p)
  \/ \E p \in Passes : UpsertBtcmap(p)

Spec == Init /\ [][Next]_vars

(***************************************************************************)
(* Properties of the sync passes (Spec).                                   *)
(***************************************************************************)
\* the label of the upserts a pass issues at pc
LabelAt(pc) == IF pc = "upsertingA" THEN "overpass" ELSE "btcmap"

\* the step is the settling of the upsert pass p awaits
UpsertSettles(p) ==
  /\ passes[p].pc \in {"upsertingA", "upsertingB"}
  /\ passes'[p].results = Append(passes[p].results, TRUE)
     \/ passes'[p].results = Append(passes[p].results, FALSE)

\* C3: no step of the system (trigger, fetch result, upsert result, failure,
\* retry) removes an id from the store.
C3_NeverDeletes == [][StoreIds(store) \subseteq StoreIds(store')]_vars

\* C3 witness: a pass is complete both of whose feeds were empty (it called
\* upsertLocation for nothing) while the rows of ids 7, 13 and 42, written by
\* an earlier pass, are in the store.
C3_Witness ==
  \E p \in Passes :
    /\ passes[p].pc = "done"
    /\ passes[p].called = {}
    /\ StoreIds(store) = {7, 13, 42}

\* C4 (as claimed): a pass that failed on the Overpass fetch has called
\* upsertLocation for nothing, and a pass that failed on the BTCMap fetch has
\* overwritten no row that was labelled btcmap.
C4_FailingSourceRowsUntouched ==
  \A p \in Passes :
    passes[p].pc = "failed" =>
      /\ passes[p].failedAt = "overpass" => passes[p].called = {}
      /\ passes[p].failedAt = "btcmap" => ~passes[p].replacedBtcmapRow

\* C4 (amended): a row leaves the store only by being replaced, in the
\* settling of an upsert for its own id, by the normalization of the upserted
\* element; a pass whose Overpass fetch failed has issued no upsert and
\* written nothing; a pass whose BTCMap fetch failed has issued no BTCMap
\* upsert, and the rows it wrote are of ids its Overpass batch carried.
C4_OnlyReplacedByWorkingSource ==
  [][/\ \A r \in store :
          r \notin store' =>
            \E p \in Passes :
              /\ UpsertSettles(p)
              /\ \E q \in store' :
                   /\ q.id = r.id
                   /\ RowParams(q) = Normalize(passes[p].batch[passes[p].i],
                                               LabelAt(passes[p].pc))
     /\ \A p \in Passes :
          /\ passes'[p].failedAt = "overpass" =>
               /\ passes'[p].called = {}
               /\ passes'[p].okA = {}
               /\ ~passes'[p].replacedBtcmapRow
          /\ passes'[p].failedAt = "btcmap" =>
               /\ passes'[p].called \subseteq {"overpass"}
               /\ passes'[p].okA \subseteq FeedIds(passes'[p].batch)]_vars

\* C4 witness: the BTCMap fetch of a pass failed after its Overpass batch
\* overwrote the row of id 7 that an earlier pass had written from BTCMap.
C4_Witness ==
  \E p \in Passes :
    /\ passes[p].pc = "failed"
    /\ passes[p].failedAt = "btcmap"
    /\ passes[p].replacedBtcmapRow
    /\ 7 \in passes[p].okA
    /\ \E r \in store : r.id = 7 /\ r.source = Some("overpass")

\* C5: a pass whose Overpass fetch threw has ended, issued no upsert, never
\* invoked the BTCMap fetch and scheduled exactly one retry; a pass whose
\* BTCMap fetch threw has ended, issued no BTCMap upsert and scheduled exactly
\* one retry; no other pass schedules a retry; and the step in which a fetch
\* throws adds exactly one pending timer.
C5_FetchFailureAborts ==
  [][\A p \in Passes :
       LET ps == passes'[p]
       IN /\ ps.failedAt = "overpass" =>
               /\ ps.pc = "failed"
               /\ ps.called = {}
               /\ ~ps.fetchedB
               /\ ps.retries = 1
          /\ ps.failedAt = "btcmap" =>
               /\ ps.pc = "failed"
               /\ ps.fetchedB
               /\ "btcmap" \notin ps.called
               /\ ps.retries = 1
          /\ ps.failedAt = "none" => (ps.pc # "failed" /\ ps.retries = 0)
          /\ (passes[p].pc \in {"fetchingA", "fetchingB"} /\ ps.pc = "failed")
               => timers' = timers + 1]_vars

\* C5 witness: the Overpass fetch of a pass threw while rows of an earlier
\* pass are stored, and its retry is pending.
C5_Witness ==
  \E p \in Passes :
    /\ passes[p].failedAt = "overpass"
    /\ store # {}
    /\ timers = 1

\* C6: when the upsert a pass awaits is rejected, the store is unchanged, no
\* timer is set and the pass does not fail: it issues the upsert of the next
\* element of the batch or, after the last one, goes on to the next step
\* (the BTCMap fetch, or completion); and at all times the ids whose upsert
\* resolved in the current batch, and in the Overpass batch of the pass, have
\* rows in the store.
C6_PartialBatch ==
  [][\A p \in Passes :
       LET ps == passes[p]
           qs == passes'[p]
       IN /\ (/\ ps.pc \in {"upsertingA", "upsertingB"}
              /\ qs.results = Append(ps.results, FALSE))
             => /\ store' = store
                /\ timers' = timers
                /\ qs.retries = 0 /\ qs.failedAt = "none"
                /\ ps.i < Len(ps.batch) =>
                     (qs.pc = ps.pc /\ qs.batch = ps.batch /\ qs.i = ps.i + 1)
                /\ ps.i = Len(ps.batch) =>
                     qs.pc = (IF ps.pc = "upsertingA" THEN "fetchingB" ELSE "done")
                /\ ps.pc = "upsertingA" /\ ps.i = Len(ps.batch) => qs.fetchedB
          /\ \A k \in 1..Len(qs.results) :
               qs.results[k] => \E r \in store' : r.id \in FeedIds(<<qs.batch[k]>>)
          /\ \A id \in qs.okA : \E r \in store' : r.id = id]_vars

\* C6 witness: a pass completed a BTCMap batch of 3 whose 2nd upsert was
\* rejected, after an Overpass batch of which an upsert was rejected too; the
\* rows of records 1 and 3 are stored with the BTCMap label and no retry was
\* set.
C6_Witness ==
  \E p \in Passes :
    /\ passes[p].pc = "done"
    /\ Len(passes[p].batch) = 3
    /\ passes[p].results = <<TRUE, FALSE, TRUE>>
    /\ passes[p].overpassUpdatedCount = 2
    /\ passes[p].btcmapUpdatedCount = 2
    /\ passes[p].retries = 0
    /\ timers = 0
    /\ \E r \in store : r.id = 7 /\ r.source = Some("btcmap")
    /\ \E r \in store : r.id = 13 /\ r.source = Some("btcmap")

\* C9: every stored row labelled "btcmap" has payment:bitcoin and
\* payment:lightning in its tags, each "yes" or "no".
C9_BtcmapRowsHaveFlags ==
  \A r \in store :
    r.source = Some("btcmap") =>
      /\ ObjGet(JSONparse(Get(r.tags)), "payment:bitcoin") \in {Some("yes"), Some("no")}
      /\ ObjGet(JSONparse(Get(r.tags)), "payment:lightning") \in {Some("yes"), Some("no")}

\* C9 witness: the row of a BTCMap record whose inner and outer tags had
\* neither flag carries payment:bitcoin = yes (from payment:onchain) and
\* payment:lightning = no.
C9_Witness ==
  \E r \in store :
    /\ r.id = 7
    /\ r.source = Some("btcmap")
    /\ ObjGet(JSONparse(Get(r.tags)), "payment:bitcoin") = Some("yes")
    /\ ObjGet(JSONparse(Get(r.tags)), "payment:lightning") = Some("no")
    /\ ObjGet(JSONparse(Get(r.tags)), "payment:onchain") = Some("yes")

\* the id a raw record of either schema describes
RecordId(element) ==
  IF IsSome(element.osm_json) THEN Get(element.osm_json).id ELSE element.id

\* the step in which pass p returns from its last await
ReachesDone(p) == passes[p].pc # "done" /\ passes'[p].pc = "done"

\* the row of id in st is the normalization of the BTCMap record location
IsBtcmapRowOf(st, location) ==
  \E r \in st : /\ r.id = RecordId(location)
                /\ RowParams(r) = Normalize(location, "btcmap")

C14_Sequential ==
  [][/\ \A p \in Passes :
          LET ps == passes[p]
              qs == passes'[p]
          IN /\ (~InFlight(p) /\ qs # ps) => qs = FreshPass
             /\ (ps.pc = "fetchingA" /\ qs # ps) =>
                  \/ qs.pc = "failed"
                  \/ /\ qs.pc = "upsertingA" /\ qs.i = 1
                     /\ Len(qs.batch) > 0 /\ qs.results = <<>>
                  \/ qs.pc = "fetchingB" /\ qs.batch = <<>>
             /\ (ps.pc = "fetchingB" /\ qs # ps) =>
                  \/ qs.pc = "failed"
                  \/ /\ qs.pc = "upsertingB" /\ qs.i = 1
                     /\ Len(qs.batch) > 0 /\ qs.results = <<>>
                  \/ qs.pc = "done" /\ qs.batch = <<>>
             /\ (ps.pc \in {"upsertingA", "upsertingB"} /\ qs # ps) =>
                  /\ qs.batch = ps.batch
                  /\ Len(qs.results) = Len(ps.results) + 1
                  /\ IF ps.i < Len(ps.batch)
                       THEN qs.pc = ps.pc /\ qs.i = ps.i + 1
                       ELSE qs.pc = (IF ps.pc = "upsertingA" THEN "fetchingB" ELSE "done")
             /\ qs.pc \in {"upsertingA", "upsertingB"} =>
                  /\ qs.i \in 1..Len(qs.batch)
                  /\ Len(qs.results) = qs.i - 1
             /\ qs.pc = "fetchingB" =>
                  /\ Len(qs.results) = Len(qs.batch)
                  /\ "btcmap" \notin qs.called
             /\ qs.pc = "done" => Len(qs.results) = Len(qs.batch)
     /\ store' # store =>
          \E p \in Passes :
            /\ UpsertSettles(p)
            /\ \A r \in store :
                 r.id # RecordId(passes[p].batch[passes[p].i]) => r \in store'
            /\ \A r \in store' :
                 r.id # RecordId(passes[p].batch[passes[p].i]) => r \in store]_vars

\* C14 witness: a pass awaits the upsert of the 2nd record of its BTCMap batch
\* of 3; the fetch and all 3 upserts of its Overpass step are behind it (2
\* resolved), and of the BTCMap batch exactly the 1st upsert has settled.
C14_Witness ==
  \E p \in Passes :
    /\ passes[p].pc = "upsertingB"
    /\ Len(passes[p].batch) = 3
    /\ passes[p].i = 2
    /\ passes[p].results = <<TRUE>>
    /\ passes[p].okA = {7, 42}
    /\ passes[p].overpassUpdatedCount = 2
    /\ passes[p].called = {"overpass", "btcmap"}

\* C15 (as claimed): at most one invocation of updateBitcoinLocations is in
\* flight (between its start and its return or its catch block) at any time.
C15_MutualExclusion == NumInFlight <= 1

\* the bound parameters of the calls the passes can make
FeedWrites ==
  {FeedNormalize[c] : c \in {d \in DOMAIN FeedNormalize : d.element # StaleRecord}}

\* C16: the settling of an upsert either leaves the store exactly as it was
\* (rejected) or replaces the rows of the element's id by one row holding all
\* the parameters of that call (resolved); so in every state a pass can be
\* interrupted in, every row, and every record the three read accessors
\* return, is the image of one single call and never a mix of two.
C16_AtomicPerRow ==
  [][/\ \A p \in Passes :
          LET element == passes[p].batch[passes[p].i]
              params == Normalize(element, LabelAt(passes[p].pc))
          IN /\ (/\ passes[p].pc \in {"upsertingA", "upsertingB"}
                 /\ passes'[p].results = Append(passes[p].results, FALSE))
                  => store' = store
             /\ (/\ passes[p].pc \in {"upsertingA", "upsertingB"}
                 /\ passes'[p].results = Append(passes[p].results, TRUE))
                  => /\ {r \in store' : r.id # params.id}
                          = {r \in store : r.id # params.id}
                     /\ {RowParams(r) : r \in {q \in store' : q.id = params.id}}
                          = {params}
     /\ {RowParams(r) : r \in store'} \subseteq FeedWrites
     /\ getAllLocations(store') \subseteq {RowToLocation(w) : w \in FeedWrites}
     /\ getLocationCoordinates(store')
          \subseteq {[id |-> w.id, type |-> w.type, lat |-> w.lat, lon |-> w.lon] :
                       w \in FeedWrites}
     /\ \A id \in {7, 13, 42} :
          getLocationById(store', id) \in
            {None} \cup {Some(RowToLocation(w)) : w \in FeedWrites}]_vars

\* C16 witness: a pass is interrupted while its 3rd BTCMap upsert (id 13) is
\* awaited: a read returns the row of id 7 as this pass just wrote it (BTCMap
\* node), the row of id 42 as its Overpass step wrote it (its BTCMap upsert
\* was rejected), and the row of id 13 as an earlier pass left it.
C16_Witness ==
  \E p \in Passes :
    /\ passes[p].pc = "upsertingB"
    /\ passes[p].i = 3
    /\ passes[p].results = <<TRUE, FALSE>>
    /\ 42 \in passes[p].okA
    /\ getLocationById(store, 7) = Some(RowToLocation(Normalize(BtcmapEntities[1], "btcmap")))
    /\ getLocationById(store, 42) = Some(RowToLocation(Normalize(OverpassEntities[3], "overpass")))
    /\ getLocationById(store, 13) = Some(RowToLocation(Normalize(BtcmapEntities[3], "btcmap")))
    /\ Cardinality(getAllLocations(store)) = 3

\* calls of each geometry class of either schema, the tag map absent or empty
NullProneCalls ==
  {[element |-> e, source |-> "overpass"] :
     e \in RawShapes(None) \cup RawShapes(Some(<<>>))}
    \cup {[element |-> BtcmapRec(osm, Some(<<>>)), source |-> "btcmap"] :
            osm \in OsmShapes(Some(<<>>))}

\* the bound parameters have a null coordinate or null tags
HasNullField(params) == params.lat = None \/ params.lon = None \/ params.tags = None

\* a table holding an earlier row for id 42
EarlierRow42 ==
  upsertLocation({}, OverpassEl(42, "node", Some(10), Some(20), None, None, Some(<<>>)),
                 "overpass", 0, FALSE).store

\* C26: a call whose normalization has a null coordinate (aggregator way
\* without geometry, aggregator relation without bounds, OSM-query way
\* without center) or null tags (OSM-query element without tags) rejects and
\* leaves the table, an earlier row for the id included, as it was; during
\* the passes every row has lat, lon and tags, and the settling of such an
\* upsert changes no row, is recorded as a failure and counted in neither
\* counter.
C26_NoNullRows ==
  /\ \A c \in NullProneCalls :
       HasNullField(Normalize(c.element, c.source))
         => \A st \in {{}, EarlierRow42} :
              /\ ~upsertLocation(st, c.element, c.source, 0, FALSE).ok
              /\ upsertLocation(st, c.element, c.source, 0, FALSE).store = st
  /\ \E c \in NullProneCalls :
       /\ IsSome(c.element.osm_json)
       /\ Get(c.element.osm_json).type = "relation"
       /\ HasNullField(Normalize(c.element, c.source))
  /\ \E c \in NullProneCalls : Normalize(c.element, c.source).tags = None
  /\ [][/\ \A r \in store' : IsSome(r.lat) /\ IsSome(r.lon) /\ IsSome(r.tags)
        /\ \A p \in Passes :
             (/\ passes[p].pc \in {"upsertingA", "upsertingB"}
              /\ passes'[p] # passes[p]
              /\ HasNullField(FeedNormalize[[element |-> passes[p].batch[passes[p].i],
                                             source |-> LabelAt(passes[p].pc)]]))
               => /\ store' = store
                  /\ passes'[p].results = Append(passes[p].results, FALSE)
                  /\ passes'[p].overpassUpdatedCount = passes[p].overpassUpdatedCount
                  /\ passes'[p].btcmapUpdatedCount = passes[p].btcmapUpdatedCount]_vars

\* a pass has upserted its three Overpass elements, the way without center
\* rejected and two counted, and then its three aggregator records, the way
\* without geometry rejected while the Overpass row of its id stays
C26_Witness ==
  \E p \in Passes :
    /\ passes[p].pc = "done"
    /\ passes[p].overpassUpdatedCount = 2
    /\ passes[p].btcmapUpdatedCount = 2
    /\ passes[p].results = <<TRUE, FALSE, TRUE>>
    /\ \E r \in store : r.id = 42 /\ r.source = Some("overpass") /\ r.type = Some("way")
    /\ \A r \in store : IsSome(r.lat) /\ IsSome(r.lon) /\ IsSome(r.tags)

\* C27 (as claimed): at most one retry of updateBitcoinLocations is
\* scheduled and not yet fired, whatever the interleaving of startup, cron
\* ticks, retry firings and fetch failures.
C27_SingleRetryTimer == timers <= 1

\* the aggregator replies fetchBtcmapLocations is claimed to accept
GoodReplies ==
  {reply \in BtcmapReplies : ~reply.rejects /\ reply.ok /\ reply.json = "array"}

\* the rows a record of a failed reply would be stored as
StaleWrites == {FeedNormalize[[element |-> StaleRecord, source |-> src]] : src \in Sources}

\* C20: fetchBtcmapLocations resolves exactly on a reply with a success
\* status whose body decodes to an array, and then with the whole array; on a
\* network error, an error status or a body that is no array it rejects and
\* hands over no record.  The step in which the fetch of a pass rejects
\* changes neither the store nor the records the pass holds and ends the pass
\* (afterwards the slot only starts afresh); the step in which it resolves
\* gives the pass the complete array of an accepted reply; and no pass ever
\* holds, and no row is ever written from, a record of a failed reply.
C20_AllOrNothing ==
  /\ \A reply \in BtcmapReplies :
       /\ fetchBtcmapLocations(reply).resolved <=> reply \in GoodReplies
       /\ fetchBtcmapLocations(reply).resolved
            => fetchBtcmapLocations(reply).data = reply.items
       /\ ~fetchBtcmapLocations(reply).resolved
            => fetchBtcmapLocations(reply).data = <<>>
  /\ [][/\ \A p \in Passes :
             /\ (passes[p].pc = "fetchingB" /\ passes'[p].pc = "failed")
                  => /\ store' = store
                     /\ passes'[p].batch = passes[p].batch
                     /\ passes'[p].failedAt = "btcmap"
                     /\ "btcmap" \notin passes'[p].called
                     /\ passes'[p].btcmapUpdatedCount = 0
             /\ (passes[p].pc = "fetchingB" /\ passes'[p].pc \in {"upsertingB", "done"})
                  => /\ store' = store
                     /\ \E reply \in GoodReplies : passes'[p].batch = reply.items
             /\ passes[p].pc = "failed" => passes'[p] \in {passes[p], FreshPass}
             /\ \A k \in 1..Len(passes'[p].batch) : passes'[p].batch[k] # StaleRecord
        /\ \A r \in store' : RowParams(r) \notin StaleWrites]_vars

\* a pass whose aggregator fetch rejected after its Overpass upserts, beside
\* a pass that stored aggregator rows: the failed pass wrote none
C20_Witness ==
  \E p \in Passes, q \in Passes :
    /\ passes[p].pc = "failed"
    /\ passes[p].failedAt = "btcmap"
    /\ passes[p].okA # {}
    /\ passes[p].btcmapUpdatedCount = 0
    /\ passes[q].pc = "done"
    /\ passes[q].btcmapUpdatedCount = 2
    /\ \E r \in store : r.source = Some("btcmap")

(***************************************************************************)
(* The sync orchestrator under scheduling assumptions (SpecLive): an       *)
(* awaited promise settles, a pending setTimeout callback runs, and a      *)
(* fetch that is attempted again and again succeeds at some attempt.       *)
(***************************************************************************)
\* the awaited fetch of pass p settles, one way or the other
FetchOverpassSettles(p) == FetchOverpassOk(p) \/ FetchOverpassFail(p)

FetchBtcmapSettles(p) == FetchBtcmapOk(p) \/ FetchBtcmapFail(p)

Fairness ==
  /\ WF_vars(RetryFire)
  /\ WF_vars(\E p \in Passes : FetchOverpassSettles(p))
  /\ WF_vars(\E p \in Passes : UpsertOverpass(p))
  /\ WF_vars(\E p \in Passes : FetchBtcmapSettles(p))
  /\ WF_vars(\E p \in Passes : UpsertBtcmap(p))
  /\ SF_vars(\E p \in Passes : FetchOverpassOk(p))
  /\ SF_vars(\E p \in Passes : FetchBtcmapOk(p))

SpecLive == Init /\ [][Next]_vars /\ Fairness

\* C13: the step in which a fetch fails sets one timer; the step in which a
\* timer fires starts an invocation at the Overpass fetch with nothing carried
\* over, as does every other start; the step that reaches DONE sets no timer;
\* whenever a retry is pending a pass is started later, however many failed
\* before; and from a state in which a pass has failed and none is DONE, a
\* pass reaches DONE.
C13_RetryPolicy ==
  /\ [][\A p \in Passes :
          /\ (passes[p].pc # "failed" /\ passes'[p].pc = "failed")
               => (timers' = timers + 1 /\ passes'[p].retries = 1)
          /\ (~InFlight(p) /\ passes'[p] # passes[p]) => passes'[p] = FreshPass
          /\ timers' < timers =>
               /\ timers' = timers - 1
               /\ \E q \in Passes : ~InFlight(q) /\ passes'[q] = FreshPass
          /\ ReachesDone(p) => (timers' = timers /\ passes'[p].retries = 0)]_vars
  /\ (timers > 0) ~> (\E p \in Passes : passes[p] = FreshPass)
  /\ ((\E p \in Passes : passes[p].pc = "failed")
        /\ (\A p \in Passes : passes[p].pc # "done"))
       ~> (\E p \in Passes : passes[p].pc = "done")

\* C13 witness: the pass in slot 2 failed on the Overpass fetch and set its
\* timer, the timer has fired (none is pending), and the pass started after
\* that in slot 1 is DONE with rows written.
C13_Witness ==
  /\ passes[2].pc = "failed"
  /\ passes[2].failedAt = "overpass"
  /\ passes[2].retries = 1
  /\ timers = 0
  /\ passes[1].pc = "done"
  /\ passes[1].called = {"overpass", "btcmap"}
  /\ store # {}

(***************************************************************************)
(* The read API over a changing store (SpecRead): upserts, the handler of  *)
(* GET /api/locations/:id and the handler of GET /api/stats, whose two     *)
(* queries are separate awaits that an upsert can come between.  response  *)
(* is the exchange being handled: pending while getPaymentStats awaits its *)
(* second query, then complete until it is sent.                           *)
(***************************************************************************)
Countries == {None, Some("US"), Some("DE")}

\* the records written while the API is read: per id two geometry classes,
\* with or without an addr:country tag
ReadElements ==
  UNION {
    { OverpassEl(7, "node", Some(10), Some(20), None, None,
                 Some(Pair("addr:country", c))),
      OverpassEl(7, "way", None, None, Some(<<30, 40>>), Some(<<1, 2>>),
                 Some(Pair("addr:country", c))),
      OverpassEl(42, "way", None, None, Some(<<30, 40>>), Some(<<1, 2>>),
                 Some(Pair("addr:country", c))),
      BtcmapRec(OsmJson(42, "relation", None, None, None, Some(Bounds4041), None,
                        Some(Pair("addr:country", c))),
                Some(<<>>)),
      OverpassEl(4, "node", Some(10), Some(20), None, None,
                 Some(Pair("addr:country", c))),
      BtcmapRec(OsmJson(4, "relation", None, None, None, Some(Bounds4041), None,
                        Some(Pair("addr:country", c))),
                Some(<<>>)) } : c \in Countries }
  \cup { OverpassEl(24, "node", Some(10), Some(20), None, None, Some(<<>>)),
         OverpassEl(24, "node", Some(10), Some(20), None, None,
                    Some(Pair("addr:country", Some("DE")))) }

\* the characters of a path segment
Chars == {"7", "4", "2", "x"}

RECURSIVE Strings(_)
Strings(n) ==
  IF n = 0 THEN {<<>>} ELSE {Append(str, c) : str \in Strings(n - 1), c \in Chars}

\* req.params.id
RequestIds == UNION {Strings(n) : n \in 1..MaxIdLen}

\* an exchange that is complete
Exchange(route, param, rejected, status, body) ==
  Some([route |-> route, param |-> param, rejected |-> rejected,
        status |-> status, body |-> body, pending |-> FALSE, stable |-> TRUE])

\* db.upsertLocation(element, source), for a record among elements, settles
\* while the API is being read
ReadUpsertFor(elements) ==
  /\ IF IsSome(response) THEN Get(response).pending ELSE TRUE
  /\ \E element \in elements :
       LET source == IF IsSome(element.osm_json) THEN "btcmap" ELSE "overpass"
           res == upsertLocation(store, element, source, now, FALSE)
       IN /\ store' = res.store
          /\ response' = IF IsSome(response) /\ res.store # store
                           THEN Some([Get(response) EXCEPT !.stable = FALSE])
                           ELSE response
  /\ UNCHANGED <<now, last, lastOk, passes, timers, started, input, api, page>>

ReadUpsert == ReadUpsertFor(ReadElements)

\* the error a rejected store call carries
StoreError == "SQLITE_IOERR: disk I/O error"

\* a handler that answers with the error it caught
ErrorBodyWithCause(message, cause) == [error |-> cause]

\* res.status(500).json({ error: message }) in a catch block: the caught
\* error goes to console.error only
ErrorBody(message, cause) == [error |-> message]

\* GET /health
GetHealthRoute ==
  /\ response = None
  /\ response' = Exchange("/health", <<>>, FALSE, 200, [status |-> "healthy"])
  /\ UNCHANGED <<store, now, last, lastOk, passes, timers, started, input, api, page>>

\* GET /api/locations
GetLocationsRoute ==
  /\ response = None
  /\ \E dbErr \in BOOLEAN :
       response' =
         IF dbErr
           THEN Exchange("/api/locations", <<>>, TRUE, 500,
                         ErrorBody("Failed to fetch locations", StoreError))
           ELSE Exchange("/api/locations", <<>>, FALSE, 200, getAllLocations(store))
  /\ UNCHANGED <<store, now, last, lastOk, passes, timers, started, input, api, page>>

\* GET /api/coordinates
GetCoordinatesRoute ==
  /\ response = None
  /\ \E dbErr \in BOOLEAN :
       response' =
         IF dbErr
           THEN Exchange("/api/coordinates", <<>>, TRUE, 500,
                         ErrorBody("Failed to fetch coordinates", StoreError))
           ELSE Exchange("/api/coordinates", <<>>, FALSE, 200,
                         getLocationCoordinates(store))
  /\ UNCHANGED <<store, now, last, lastOk, passes, timers, started, input, api, page>>

\* GET /api/locations/:id for a path segment among params
GetLocationRouteFor(params) ==
  /\ response = None
  /\ \E param \in params, dbErr \in BOOLEAN :
       LET location == getLocationByIdString(store, param)
       IN response' =
            IF dbErr
              THEN Exchange("/api/locations/:id", param, TRUE, 500,
                            ErrorBody("Failed to fetch location", StoreError))
              ELSE IF location = None
                THEN Exchange("/api/locations/:id", param, FALSE, 404,
                              [error |-> "Location not found"])
                ELSE Exchange("/api/locations/:id", param, FALSE, 200, Get(location))
  /\ UNCHANGED <<store, now, last, lastOk, passes, timers, started, input, api, page>>

\* GET /api/locations/:id
GetLocationRoute == GetLocationRouteFor(RequestIds)

\* GET /api/stats up to the second await of getPaymentStats: getLocationStats
\* has resolved or rejected
GetStatsBegin ==
  /\ response = None
  /\ \E dbErr \in BOOLEAN :
       response' =
         IF dbErr
           THEN Exchange("/api/stats", <<>>, TRUE, 500,
                         ErrorBody("Failed to fetch statistics", StoreError))
           ELSE Some([route |-> "/api/stats", param |-> <<>>, rejected |-> FALSE,
                      status |-> 0, body |-> getLocationStats(store),
                      pending |-> TRUE, stable |-> TRUE])
  /\ UNCHANGED <<store, now, last, lastOk, passes, timers, started, input, api, page>>

\* getCountryStats settles, getPaymentStats returns and the handler answers
GetStatsEnd ==
  /\ IsSome(response)
  /\ Get(response).pending
  /\ \E dbErr \in BOOLEAN :
       LET stats == Get(response).body
           countries == getCountryStats(store)
       IN response' =
            IF dbErr
              THEN Some([Get(response) EXCEPT
                           !.rejected = TRUE, !.status = 500, !.pending = FALSE,
                           !.body = ErrorBody("Failed to fetch statistics",
                                              StoreError)])
              ELSE Some([Get(response) EXCEPT
                           !.status = 200, !.pending = FALSE,
                           !.body = StatsBody(PaymentStats(stats, countries), now)])
  /\ UNCHANGED <<store, now, last, lastOk, passes, timers, started, input, api, page>>

\* the answer has been sent
Sent ==
  /\ IsSome(response)
  /\ ~Get(response).pending
  /\ response' = None
  /\ UNCHANGED <<store, now, last, lastOk, passes, timers, started, input, api, page>>

InitRead == InitCommon /\ input = None

NextRead == ReadUpsert \/ GetLocationRoute \/ GetStatsBegin \/ GetStatsEnd \/ Sent

SpecRead == InitRead /\ [][NextRead]_vars

\* String(n) of a non-negative integer
RECURSIVE ToDecimal(_)
ToDecimal(n) ==
  IF n < 10 THEN <<DigitChar(n)>> ELSE Append(ToDecimal(n \div 10), DigitChar(n % 10))

\* the complete exchange of the by-id route, if that is what response holds
ByIdExchange ==
  /\ IsSome(response)
  /\ Get(response).route = "/api/locations/:id"

\* C18 (as claimed): the by-id route answers 500 exactly when the store call
\* rejects; otherwise 200 with the row whose id is the requested id when
\* there is one, and 404 when no row has the requested id.
C18_ByIdRoute ==
  ByIdExchange =>
    LET x == Get(response)
        matching == {r \in store : ToDecimal(r.id) = x.param}
    IN /\ x.status = 500 <=> x.rejected
       /\ (~x.rejected /\ matching # {}) =>
            /\ x.status = 200
            /\ \E r \in matching : x.body = RowToLocation(r)
       /\ (~x.rejected /\ matching = {}) => x.status = 404

\* the complete, successful exchange of the stats route in which no write
\* came between the two queries of getPaymentStats
StableStatsExchange ==
  /\ IsSome(response)
  /\ Get(response).route = "/api/stats"
  /\ Get(response).status = 200
  /\ Get(response).stable

\* the ids of the rows whose parsed tag map gives addr:country the value c
IdsOfCountry(c) ==
  {l.id : l \in {k \in getAllLocations(store) :
                   /\ ObjHas(Get(k.tags), "addr:country")
                   /\ Get(ObjGet(Get(k.tags), "addr:country")) = c}}

\* the ids of the rows of a geometry type
IdsOfType(type) == {r.id : r \in {q \in store : q.type = Some(type)}}

\* the addr:country values some row carries
CountriesPresent == {c \in {"US", "DE"} : IdsOfCountry(c) # {}}

\* C19: on a fixed store state getPaymentStats returns total_locations = the
\* number of rows, by_type.nodes and by_type.ways = the number of rows of type
\* node and way (a relation is counted in the total only), and countries maps
\* each addr:country value some row carries to the number of rows carrying it
\* (a row without the tag counts for no country); /api/stats reports these and
\* total_countries = the number of keys of the distribution.
C19_Stats ==
  /\ LET stats == getPaymentStats(store)
     IN /\ stats.total_locations = Cardinality({r.id : r \in store})
        /\ stats.by_type.nodes = Cardinality(IdsOfType("node"))
        /\ stats.by_type.ways = Cardinality(IdsOfType("way"))
        /\ DOMAIN stats.countries = CountriesPresent
        /\ \A c \in CountriesPresent :
             stats.countries[c] = Cardinality(IdsOfCountry(c))
  /\ StableStatsExchange =>
       LET body == Get(response).body
       IN /\ body.total_locations = Cardinality({r.id : r \in store})
          /\ body.location_types.physical_locations = Cardinality(IdsOfType("node"))
          /\ body.location_types.areas_or_buildings = Cardinality(IdsOfType("way"))
          /\ DOMAIN body.countries.distribution = CountriesPresent
          /\ \A c \in CountriesPresent :
               body.countries.distribution[c] = Cardinality(IdsOfCountry(c))
          /\ body.countries.total_countries = Cardinality(CountriesPresent)

\* rows US, US, DE and a row without the tag, a relation among them: the
\* answer is {US: 2, DE: 1}, total_countries 2, and the relation is in the
\* total only
C19_Witness ==
  /\ StableStatsExchange
  /\ \E r \in store : r.type = Some("relation")
  /\ \E r \in store : CountryOf(r) = None
  /\ Get(response).body.total_locations = 4
  /\ Get(response).body.location_types.physical_locations
       + Get(response).body.location_types.areas_or_buildings = 3
  /\ Get(response).body.countries.total_countries = 2
  /\ DOMAIN Get(response).body.countries.distribution = {"US", "DE"}
  /\ Get(response).body.countries.distribution["US"] = 2
  /\ Get(response).body.countries.distribution["DE"] = 1


\* the complete, successful exchange of the stats route, whatever was
\* written between its two queries
StatsExchange ==
  /\ IsSome(response)
  /\ Get(response).route = "/api/stats"
  /\ Get(response).status = 200

\* the sum of the counts of a distribution
RECURSIVE SumCounts(_)
SumCounts(f) ==
  IF DOMAIN f = {}
    THEN 0
    ELSE LET c == CHOOSE d \in DOMAIN f : TRUE
         IN f[c] + SumCounts([d \in DOMAIN f \ {c} |-> f[d]])

\* C28 (as claimed): in every getPaymentStats result, upserts interleaved
\* or not, nodes + ways <= total_locations and the country counts sum to at
\* most total_locations.
C28_StatsConsistent ==
  StatsExchange =>
    LET body == Get(response).body
    IN /\ body.location_types.physical_locations
            + body.location_types.areas_or_buildings <= body.total_locations
       /\ SumCounts(body.countries.distribution) <= body.total_locations

\* C28 (amended): nodes + ways <= total_locations in every result (the three
\* come from one query); the country counts sum to at most total_locations
\* when no write landed between the two queries, and always to at most the
\* number of rows at the second query, which is at least total_locations.
C28_StatsConsistentPerQuery ==
  StatsExchange =>
    LET body == Get(response).body
    IN /\ body.location_types.physical_locations
            + body.location_types.areas_or_buildings <= body.total_locations
       /\ Get(response).stable
            => SumCounts(body.countries.distribution) <= body.total_locations
       /\ SumCounts(body.countries.distribution) <= Cardinality(store)
       /\ body.total_locations <= Cardinality(store)

\* a row with a country was inserted between the two queries: the answer
\* counts more rows by country than in total
C28_Witness ==
  /\ StatsExchange
  /\ ~Get(response).stable
  /\ Get(response).body.total_locations = 1
  /\ Get(response).body.location_types.physical_locations = 1
  /\ SumCounts(Get(response).body.countries.distribution) = 2

(***************************************************************************)
(* The OSM-query client (SpecOverpass): one call of                        *)
(* OverpassService.fetchBitcoinLocations with a configuration and an       *)
(* outcome of axios.get.  Text is a flat sequence of pieces (a number is   *)
(* the sequence of its digits); byte counts are in MiB.                    *)
(***************************************************************************)
DEFAULT_TIMEOUT == 180

DEFAULT_MAXSIZE == 1024

API_URL == "https://overpass-api.de/api/interpreter"

\* x || d for a number: undefined and 0 give d
OrDefault(optN, d) == IF IsSome(optN) /\ Get(optN) # 0 THEN Get(optN) ELSE d

\* `(${south},${west},${north},${east})`
Area(box) ==
  <<"(">> \o ToDecimal(box.south) \o <<",">> \o ToDecimal(box.west) \o <<",">>
    \o ToDecimal(box.north) \o <<",">> \o ToDecimal(box.east) \o <<")">>

\* one filter of the union
Filter(kind, area) == <<kind, "[\"payment:bitcoin\"=\"yes\"]">> \o area \o <<";">>

\* buildQuery(config = {})
buildQuery(config) ==
  LET timeout == OrDefault(IF IsSome(config) THEN Get(config).timeout ELSE None,
                           DEFAULT_TIMEOUT)
      maxsize == OrDefault(IF IsSome(config) THEN Get(config).maxsize ELSE None,
                           DEFAULT_MAXSIZE)
      baseQuery == <<"[out:json][timeout:">> \o ToDecimal(timeout)
                     \o <<"][maxsize:">> \o ToDecimal(maxsize) \o <<"];">>
      area == IF IsSome(config) /\ IsSome(Get(config).boundingBox)
                THEN Area(Get(Get(config).boundingBox))
                ELSE <<>>
      filters == Filter("node", area) \o Filter("way", area) \o Filter("relation", area)
  IN baseQuery \o <<"(">> \o filters \o <<");out center;">>

\* the arguments of axios.get
OverpassRequest(config) ==
  [url |-> API_URL,
   data |-> buildQuery(config),
   timeout |-> OrDefault(IF IsSome(config) THEN Get(config).timeout ELSE None,
                         DEFAULT_TIMEOUT) * 1000]

\* fetchBitcoinLocations(config) when axios.get settles with outcome: the
\* request made, the value resolved with or the Error thrown (an Error has a
\* message and nothing else), and the object passed to console.error
fetchBitcoinLocations(config, outcome) ==
  LET request == OverpassRequest(config)
  IN IF outcome.kind = "resolved"
       THEN [request |-> request, resolved |-> TRUE, data |-> outcome.data,
             error |-> None, logged |-> None]
       ELSE IF outcome.isAxiosError
         THEN [request |-> request, resolved |-> FALSE, data |-> <<>>,
               error |-> Some([message |->
                                 <<"Failed to fetch bitcoin locations: ">>
                                   \o outcome.message]),
               logged |-> Some([status |-> outcome.status,
                                data |-> outcome.data,
                                query |-> IF outcome.hasConfig
                                            THEN Some(request.data) ELSE None])]
         ELSE [request |-> request, resolved |-> FALSE, data |-> <<>>,
               error |-> Some([message |-> <<"Failed to fetch bitcoin locations">>]),
               logged |-> None]

\* the call updateBitcoinLocations makes: timeout 300, maxsize 1073741824 * 2
SyncConfig ==
  Some([timeout |-> Some(300), maxsize |-> Some(DEFAULT_MAXSIZE * 2),
        boundingBox |-> None])

\* OverpassConfig values, the argument left out included
OverpassConfigs ==
  {None, SyncConfig}
    \cup {Some([timeout |-> t, maxsize |-> m, boundingBox |-> b]) :
            t \in {None, Some(0), Some(60)}, m \in {None, Some(0), Some(512)},
            b \in {None, Some([south |-> 40, west |-> 10, north |-> 41, east |-> 11])}}

\* what axios.get can settle with: a response, an AxiosError of an HTTP
\* status (axios' own message), an AxiosError without a response (timeout,
\* connection failure), an AxiosError with a message of its own, and an
\* error that is no AxiosError
AxiosOutcomes ==
  {[kind |-> "resolved", isAxiosError |-> FALSE, message |-> <<>>, status |-> None,
    data |-> feed, hasConfig |-> FALSE] : feed \in {<<>>, OverpassEntities}}
    \cup {[kind |-> "rejected", isAxiosError |-> TRUE,
           message |-> <<"Request failed with status code ">> \o ToDecimal(st),
           status |-> Some(st), data |-> <<"error page">>, hasConfig |-> TRUE] :
            st \in {429, 500, 504}}
    \cup {[kind |-> "rejected", isAxiosError |-> TRUE, message |-> <<"Network Error">>,
           status |-> Some(500), data |-> <<"Internal Server Error">>,
           hasConfig |-> TRUE]}
    \cup {[kind |-> "rejected", isAxiosError |-> TRUE, message |-> m,
           status |-> None, data |-> <<>>, hasConfig |-> TRUE] :
            m \in {<<"Network Error">>, <<"timeout exceeded">>}}
    \cup {[kind |-> "rejected", isAxiosError |-> FALSE, message |-> <<"Unknown error">>,
           status |-> None, data |-> <<>>, hasConfig |-> FALSE]}

OverpassCalls == {[config |-> c, outcome |-> o] : c \in OverpassConfigs, o \in AxiosOutcomes}

InitOverpass == InitCommon /\ input \in OverpassCalls

\* the call settles
CallOverpass ==
  /\ response = None
  /\ response' = Some(fetchBitcoinLocations(input.config, input.outcome))
  /\ UNCHANGED <<store, now, last, lastOk, passes, timers, started, input, api, page>>

NextOverpass == CallOverpass

SpecOverpass == InitOverpass /\ [][NextOverpass]_vars

\* sub occurs in text as a run of consecutive pieces
Contains(text, sub) ==
  \E k \in 0..(Len(text) - Len(sub)) : SubSeq(text, k + 1, k + Len(sub)) = sub

\* the call has failed
OverpassFailed == IsSome(response) /\ ~Get(response).resolved

\* C21 (as claimed): every failure of the OSM-query fetch is an error of one
\* kind (the message begins with the same words); when the remote call
\* errored with an HTTP status the error value carries that status, the
\* response body and the query string, and every error value of a remote
\* failure retains the query.
C21_ErrorCarriesContext ==
  OverpassFailed =>
    LET err == Get(Get(response).error)
    IN /\ Head(err.message) \in {"Failed to fetch bitcoin locations",
                                 "Failed to fetch bitcoin locations: "}
       /\ IsSome(input.outcome.status)
            => /\ Contains(err.message, ToDecimal(Get(input.outcome.status)))
               /\ Contains(err.message, input.outcome.data)
       /\ input.outcome.isAxiosError
            => Contains(err.message, Get(response).request.data)

\* the configured value when the configuration gives one, else the default
Configured(config, field, default) ==
  IF IsSome(config) /\ IsSome(Get(config)[field]) THEN Get(Get(config)[field]) ELSE default

\* the three filters, each followed by area
ThreeFilters(area) ==
  <<"node", "[\"payment:bitcoin\"=\"yes\"]">> \o area \o <<";">>
    \o <<"way", "[\"payment:bitcoin\"=\"yes\"]">> \o area \o <<";">>
    \o <<"relation", "[\"payment:bitcoin\"=\"yes\"]">> \o area \o <<";">>

\* C25 (as claimed): the request of a call uses for timeout and maxsize the
\* configured value when one is given and 180 s / 1 GiB otherwise: the query
\* embeds these two values, the request's timeout is the timeout x 1000 ms,
\* and the three filters carry the bounding box exactly when one is
\* configured; the sync pass calls with timeout 300, maxsize 2 GiB, no box.
C25_EffectiveConfig ==
  /\ SyncConfig = Some([timeout |-> Some(300), maxsize |-> Some(2048),
                        boundingBox |-> None])
  /\ IsSome(response) =>
       LET request == Get(response).request
           timeout == Configured(input.config, "timeout", 180)
           maxsize == Configured(input.config, "maxsize", 1024)
           box == IF IsSome(input.config) THEN Get(input.config).boundingBox ELSE None
           area == IF IsSome(box)
                     THEN <<"(">> \o ToDecimal(Get(box).south) \o <<",">>
                            \o ToDecimal(Get(box).west) \o <<",">>
                            \o ToDecimal(Get(box).north) \o <<",">>
                            \o ToDecimal(Get(box).east) \o <<")">>
                     ELSE <<>>
       IN /\ request.timeout = timeout * 1000
          /\ request.data =
               <<"[out:json][timeout:">> \o ToDecimal(timeout) \o <<"][maxsize:">>
                 \o ToDecimal(maxsize) \o <<"];", "(">> \o ThreeFilters(area)
                 \o <<");out center;">>

(***************************************************************************)
(* The server as a whole (SpecServe): the sync passes of Spec and the read *)
(* handlers on the one store.  A request, once its handler has begun, is   *)
(* answered and the answer sent before the next step of a pass is looked   *)
(* at: a handler reads nothing of a pass but the store, and the writes     *)
(* that land between the two queries of the stats handler are SpecRead's.  *)
(***************************************************************************)
\* the path segments requested while the passes run
ServeIds == {<<"7">>, <<"x">>}

NextServe ==
  \/ response = None /\ Next
  \/ GetHealthRoute
  \/ GetLocationsRoute
  \/ GetCoordinatesRoute
  \/ GetLocationRouteFor(ServeIds)
  \/ GetStatsBegin
  \/ GetStatsEnd
  \/ Sent

SpecServe == Init /\ [][NextServe]_vars

\* the message each route answers a failed store call with
FixedMessage ==
  [route \in {"/api/locations", "/api/coordinates", "/api/locations/:id", "/api/stats"}
     |-> CASE route = "/api/locations" -> "Failed to fetch locations"
           [] route = "/api/coordinates" -> "Failed to fetch coordinates"
           [] route = "/api/locations/:id" -> "Failed to fetch location"
           [] route = "/api/stats" -> "Failed to fetch statistics"]

\* C22: an invocation of updateBitcoinLocations that has ended has ended by
\* returning, from its last statement or from its catch block, whatever
\* fetch or upsert failed; and a complete answer of a read endpoint is a 500
\* exactly when its store call rejected, and then carries the route's fixed
\* message and nothing of the error, whatever the passes are doing or have
\* suffered.
C22_FailuresNotSurfaced ==
  /\ \A p \in Passes :
       passes[p].pc \in {"idle", "fetchingA", "upsertingA", "fetchingB",
                         "upsertingB", "done", "failed"}
  /\ (IsSome(response) /\ ~Get(response).pending) =>
       LET x == Get(response)
       IN /\ x.status = 500 <=> x.rejected
          /\ x.status \in {200, 404, 500}
          /\ x.status = 500 => x.body = [error |-> FixedMessage[x.route]]
          /\ x.route = "/health" => x.status = 200

\* a store call answered 200 while one pass has failed with its retry
\* pending and another is in the middle of its upserts
C22_Witness ==
  /\ IsSome(response)
  /\ Get(response).route = "/api/locations"
  /\ Get(response).status = 200
  /\ \E p \in Passes : passes[p].pc = "failed"
  /\ \E p \in Passes :
       /\ passes[p].pc = "upsertingB"
       /\ \E k \in 1..Len(passes[p].results) : ~passes[p].results[k]
  /\ timers > 0

(***************************************************************************)
(* The stats route as time passes (SpecStats): upserts, the clock and the  *)
(* handler of GET /api/stats.                                              *)
(***************************************************************************)
\* the records written while the clock runs
StatsElements ==
  { OverpassEl(7, "node", Some(10), Some(20), None, None,
               Some(Pair("addr:country", Some("US")))),
    OverpassEl(7, "way", None, None, Some(<<30, 40>>), Some(<<1, 2>>), Some(<<>>)),
    BtcmapRec(OsmJson(42, "relation", None, None, None, Some(Bounds4041), None,
                      Some(Pair("addr:country", Some("DE")))),
              Some(<<>>)),
    OverpassEl(4, "node", Some(10), Some(20), None, None, Some(<<>>)) }

NextStats ==
  \/ ReadUpsertFor(StatsElements)
  \/ Tick
  \/ GetStatsBegin
  \/ GetStatsEnd
  \/ Sent

SpecStats == InitRead /\ [][NextStats]_vars

\* the latest updated_at of a stored row
RECURSIVE MaxOf(_)
MaxOf(S) ==
  IF S = {}
    THEN 0
    ELSE LET x == CHOOSE y \in S : TRUE
             m == MaxOf(S \ {x})
         IN IF x > m THEN x ELSE m

LatestUpdatedAt == MaxOf({r.updated_at : r \in store})

\* C23 (as claimed): the last_updated of a /api/stats answer never exceeds
\* the latest updated_at of a stored row, so that while no upsert succeeds
\* it does not advance from one answer to the next.
C23_LastUpdatedIsStaleness ==
  (/\ IsSome(response)
   /\ Get(response).route = "/api/stats"
   /\ Get(response).status = 200
   /\ store # {})
    => Get(response).body.last_updated <= LatestUpdatedAt

(***************************************************************************)
(* The client's API service (SpecCache): calls of fetchLocations,          *)
(* fetchCoordinates, fetchStats, forceRefresh and clearCache as the        *)
(* browser's clock runs.  A cached value is the body of a response and the *)
(* instant it was received at.                                             *)
(***************************************************************************)
FetchFunctions == {"fetchLocations", "fetchCoordinates", "fetchStats"}

\* the cache a fetch function reads and fills
CacheOf(fn) ==
  CASE fn = "fetchLocations" -> "locationsCache"
    [] fn = "fetchCoordinates" -> "coordinatesCache"
    [] fn = "fetchStats" -> "statsCache"

ServerUnchanged == <<store, now, last, lastOk, passes, timers, started, input, response>>

\* Date.now() advances
ApiTick ==
  /\ api.ret = None
  /\ api.clock < MaxClock
  /\ api' = [api EXCEPT !.clock = @ + 1]
  /\ UNCHANGED <<ServerUnchanged, page>>

\* fn() is called: it returns the cached value when there is one and
\* Date.now() - lastFetchTime < CACHE_DURATION, else it awaits fetch(url)
CallFetch(fn) ==
  /\ api.ret = None
  /\ IF IsSome(api[CacheOf(fn)]) /\ api.clock - api.lastFetchTime < CACHE_DURATION
       THEN api' = [api EXCEPT !.ret = Some([fn |-> fn, fromCache |-> TRUE,
                                             threw |-> FALSE,
                                             value |-> api[CacheOf(fn)]])]
       ELSE /\ fn \notin api.pending
            /\ api' = [api EXCEPT !.pending = @ \cup {fn}]
  /\ UNCHANGED <<ServerUnchanged, page>>

\* the request of fn settles: with a success status and a body, which is
\* cached, or with an error status, a network error or an undecodable body,
\* for which fn throws
FetchSettles(fn) ==
  /\ api.ret = None
  /\ fn \in api.pending
  /\ \E ok \in BOOLEAN :
       LET data == [body |-> fn, receivedAt |-> api.clock]
       IN api' =
            IF ok
              THEN [api EXCEPT ![CacheOf(fn)] = Some(data),
                               !.lastFetchTime = api.clock,
                               !.pending = @ \ {fn},
                               !.ret = Some([fn |-> fn, fromCache |-> FALSE,
                                             threw |-> FALSE, value |-> Some(data)])]
              ELSE [api EXCEPT !.pending = @ \ {fn},
                               !.ret = Some([fn |-> fn, fromCache |-> FALSE,
                                             threw |-> TRUE, value |-> None])]
  /\ UNCHANGED <<ServerUnchanged, page>>

\* clearCache()
ClearCache ==
  /\ api.ret = None
  /\ api' = [api EXCEPT !.locationsCache = None, !.coordinatesCache = None,
                        !.statsCache = None, !.lastFetchTime = 0]
  /\ UNCHANGED <<ServerUnchanged, page>>

\* forceRefresh() up to its await: clearCache(), then fetchCoordinates() and
\* fetchStats() are called, each finding its cache empty
ForceRefresh ==
  /\ api.ret = None
  /\ api.pending \cap {"fetchCoordinates", "fetchStats"} = {}
  /\ api' = [api EXCEPT !.locationsCache = None, !.coordinatesCache = None,
                        !.statsCache = None, !.lastFetchTime = 0,
                        !.pending = @ \cup {"fetchCoordinates", "fetchStats"}]
  /\ UNCHANGED <<ServerUnchanged, page>>

\* the caller has the result
Returned ==
  /\ IsSome(api.ret)
  /\ api' = [api EXCEPT !.ret = None]
  /\ UNCHANGED <<ServerUnchanged, page>>

InitCache == InitCommon /\ input = None

NextCache ==
  \/ ApiTick
  \/ \E fn \in FetchFunctions : CallFetch(fn)
  \/ \E fn \in FetchFunctions : FetchSettles(fn)
  \/ ClearCache
  \/ ForceRefresh
  \/ Returned

SpecCache == InitCache /\ [][NextCache]_vars

Caches == <<api.locationsCache, api.coordinatesCache, api.statsCache>>

\* C29 (as claimed): a fetch function returns a value from its cache only if
\* that value was received from the network less than CACHE_DURATION
\* earlier; after clearCache every cache is empty, so that the next call of
\* each fetch function goes to the network; and a fetch that fails leaves
\* the caches and lastFetchTime as they were.
C29_CacheExpiry ==
  /\ [](IsSome(api.ret) /\ Get(api.ret).fromCache
          => api.clock - Get(Get(api.ret).value).receivedAt < CACHE_DURATION)
  /\ [][/\ (api'.lastFetchTime = 0 /\ api.lastFetchTime # 0)
             => \A fn \in FetchFunctions : api'[CacheOf(fn)] = None
        /\ (\A fn \in FetchFunctions : api[CacheOf(fn)] = None)
             => ~(IsSome(api'.ret) /\ Get(api'.ret).fromCache)
        /\ (IsSome(api'.ret) /\ Get(api'.ret).threw)
             => /\ Caches' = Caches
                /\ api'.lastFetchTime = api.lastFetchTime]_vars

(***************************************************************************)
(* The Home component (SpecLoad): the mount effect, loadData, the refresh  *)
(* button and the "Try Again" button, over the API service above.  A       *)
(* handler and the render that follows it are one step.                    *)
(***************************************************************************)
\* the test of a fetch function on entry: its cache is filled and fresh
CacheHit(a, fn) ==
  IsSome(a[CacheOf(fn)]) /\ a.clock - a.lastFetchTime < CACHE_DURATION

\* the API service after the request of fn succeeded
Fetched(a, fn) ==
  [a EXCEPT ![CacheOf(fn)] = Some([body |-> fn, receivedAt |-> a.clock]),
            !.lastFetchTime = a.clock]

\* clearCache()
Cleared(a) ==
  [a EXCEPT !.locationsCache = None, !.coordinatesCache = None,
            !.statsCache = None, !.lastFetchTime = 0]

\* if (retries >= 3) throw error
RetriesExhaustedAtFour(retries) == retries >= 4

RetriesExhausted(retries) == retries >= 3

\* loadData(isRefreshRequest) up to its first await
StartLoad(isRefreshRequest) ==
  /\ page.statsTimers < MaxStatsTimers
  /\ page' = [page EXCEPT
        !.mounted = TRUE,
        !.isLoadingStats = TRUE,
        !.isRefreshing = IF isRefreshRequest THEN TRUE ELSE @,
        !.loading = IF isRefreshRequest THEN @ ELSE TRUE,
        !.error = None,
        !.load = [NoLoad EXCEPT
           !.pc = IF isRefreshRequest THEN "forceRefresh" ELSE "fetchCoordinates",
           !.isRefreshRequest = isRefreshRequest,
           !.coordinatesCalls = IF isRefreshRequest THEN 0 ELSE 1,
           !.cached = ~isRefreshRequest /\ CacheHit(api, "fetchCoordinates")]]
  /\ api' = IF isRefreshRequest THEN Cleared(api) ELSE api
  /\ UNCHANGED ServerUnchanged

\* the catch and finally blocks of loadData
Caught(pg, message) ==
  [pg EXCEPT !.error = Some(message), !.isLoadingStats = FALSE,
             !.loading = FALSE, !.isRefreshing = FALSE,
             !.load.pc = "done", !.load.threw = TRUE]

\* the end of the try block and the finally block of loadData
Loaded(pg) ==
  [pg EXCEPT !.statsTimers = @ + 1, !.loading = FALSE, !.isRefreshing = FALSE,
             !.load.pc = "done"]

\* the call of fetchStats that follows setCoordinates
CallStats(pg) ==
  [pg EXCEPT !.load.pc = "fetchStats", !.load.statsCalls = @ + 1,
             !.load.cached = CacheHit(api', "fetchStats")]

\* the mount effect: setIsLoadingStats(true); loadData()
Mount ==
  /\ ~page.mounted
  /\ StartLoad(FALSE)

\* a click on the refresh button, enabled unless isRefreshing or loading:
\* handleRefresh
HandleRefresh ==
  /\ page.mounted /\ page.error = None
  /\ ~(page.isRefreshing \/ page.loading)
  /\ ~page.isRefreshing
  /\ StartLoad(TRUE)

\* a click on "Try Again" in the error view, enabled unless isRefreshing
TryAgain ==
  /\ page.mounted /\ IsSome(page.error)
  /\ ~page.isRefreshing
  /\ StartLoad(FALSE)

\* the awaited fetchCoordinates() of loadData(false) settles
CoordinatesSettles ==
  /\ page.load.pc = "fetchCoordinates"
  /\ \E ok \in BOOLEAN :
       IF page.load.cached \/ ok
         THEN /\ api' = IF page.load.cached THEN api ELSE Fetched(api, "fetchCoordinates")
              /\ page' = CallStats([page EXCEPT !.coordinates = Some("fetchCoordinates"),
                                                !.load.succeeded = TRUE])
         ELSE /\ api' = api
              /\ page' =
                   IF RetriesExhausted(page.load.retries + 1)
                     THEN Caught([page EXCEPT !.load.retries = @ + 1],
                                 "Failed to fetch coordinates")
                     ELSE [page EXCEPT !.load.retries = @ + 1, !.load.pc = "waiting"]
  /\ UNCHANGED ServerUnchanged

\* the one-second wait of the retry loop ends: while (retries < 3) either
\* calls fetchCoordinates again or leaves the loop
RetryTimer ==
  /\ page.load.pc = "waiting"
  /\ api' = api
  /\ page' =
       IF page.load.retries < 3
         THEN [page EXCEPT !.load.pc = "fetchCoordinates",
                           !.load.coordinatesCalls = @ + 1,
                           !.load.cached = CacheHit(api, "fetchCoordinates")]
         ELSE CallStats([page EXCEPT !.coordinates = Some("none")])
  /\ UNCHANGED ServerUnchanged

\* the awaited fetchStats() of loadData(false) settles
StatsSettles ==
  /\ page.load.pc = "fetchStats"
  /\ \E ok \in BOOLEAN :
       IF page.load.cached \/ ok
         THEN /\ api' = IF page.load.cached THEN api ELSE Fetched(api, "fetchStats")
              /\ page' = Loaded([page EXCEPT !.stats = Some("fetchStats")])
         ELSE /\ api' = api
              /\ page' = Caught(page, "Failed to fetch stats")
  /\ UNCHANGED ServerUnchanged

\* the awaited forceRefresh() of loadData(true) settles: Promise.all of
\* fetchCoordinates() and fetchStats(), both from the network
RefreshSettles ==
  /\ page.load.pc = "forceRefresh"
  /\ \E okC, okS \in BOOLEAN :
       LET a1 == IF okC THEN Fetched(api, "fetchCoordinates") ELSE api
           a2 == IF okS THEN Fetched(a1, "fetchStats") ELSE a1
       IN /\ api' = a2
          /\ page' =
               IF okC /\ okS
                 THEN Loaded([page EXCEPT !.coordinates = Some("fetchCoordinates"),
                                          !.stats = Some("fetchStats")])
                 ELSE Caught(page, IF okC THEN "Failed to fetch stats"
                                          ELSE "Failed to fetch coordinates")
  /\ UNCHANGED ServerUnchanged

\* a one-second timer set after setStats fires: setIsLoadingStats(false)
StatsTimer ==
  /\ page.statsTimers > 0
  /\ page' = [page EXCEPT !.statsTimers = @ - 1, !.isLoadingStats = FALSE]
  /\ UNCHANGED <<ServerUnchanged, api>>

InitLoad == InitCommon /\ input = None

NextLoad ==
  \/ ApiTick
  \/ Mount
  \/ HandleRefresh
  \/ TryAgain
  \/ CoordinatesSettles
  \/ RetryTimer
  \/ StatsSettles
  \/ RefreshSettles
  \/ StatsTimer

SpecLoad == InitLoad /\ [][NextLoad]_vars

InitialLoad == page.load.pc # "idle" /\ ~page.load.isRefreshRequest

\* C30: loadData(false) calls fetchCoordinates at most 3 times and not again
\* after a call succeeded, calls fetchStats only after a fetchCoordinates
\* succeeded, has set the error and called no fetchStats when 3 attempts
\* failed, and ends with loading = false and isRefreshing = false; and
\* handleRefresh starts a load only when isRefreshing is false.
C30_InitialLoad ==
  /\ [](InitialLoad =>
          /\ page.load.coordinatesCalls <= 3
          /\ page.load.statsCalls > 0 => page.load.succeeded
          /\ page.load.retries >= 3 =>
               /\ page.load.pc = "done" /\ IsSome(page.error)
               /\ page.load.statsCalls = 0)
  /\ [](page.load.pc = "done" => ~page.loading /\ ~page.isRefreshing)
  /\ [][/\ (InitialLoad /\ page.load.succeeded /\ page'.load.succeeded)
             => page'.load.coordinatesCalls = page.load.coordinatesCalls
        /\ (page'.load.pc = "forceRefresh" /\ page.load.pc # "forceRefresh")
             => ~page.isRefreshing]_vars

\* an initial load ended after three failed calls of fetchCoordinates
C30_Witness ==
  /\ InitialLoad /\ page.load.pc = "done"
  /\ page.load.coordinatesCalls = 3 /\ page.load.retries = 3
  /\ IsSome(page.error) /\ ~page.loading /\ ~page.isRefreshing

====
